---- MODULE Spec2Model ----
(***************************************************************************)
(* A model of pypi-cli: the API client's request primitive with its retry  *)
(* loop and the lookup methods built on it, the uploaders, the             *)
(* distribution validator, the configuration files, the publish / upload / *)
(* config commands, the validators and filename metadata extractors called *)
(* on their own, and the in-memory TTL cache.                              *)
(*                                                                         *)
(* Strings the code takes apart (paths, tokens, header values) are         *)
(* sequences of one-character strings; texts the code only passes along    *)
(* are TLA+ strings.  An optional value (undefined / null in the code) is  *)
(* the empty tuple None, a present value v is Some(v).                     *)
(***************************************************************************)
EXTENDS Integers, Sequences, FiniteSets, TLC

\* ------------------------------------------------------------------ bounds

\* The largest maxRetries option a caller passes to the PyPIClient constructor.
MaxRetriesOpt == 5

\* ------------------------------------------------------- optional values

None == <<>>

Some(v) == <<v>>

\* JavaScript's a || b on optional values whose falsy values are listed.
OrElse(a, falsy, b) == IF a = None \/ a[1] \in falsy THEN b ELSE a[1]

Min(a, b) == IF a < b THEN a ELSE b

RECURSIVE Pow2(_)
Pow2(n) == IF n <= 0 THEN 1 ELSE 2 * Pow2(n - 1)

\* A message: a template, and the number and the string interpolated into it.
Msg(tmpl, num, str) == [tmpl |-> tmpl, num |-> num, str |-> str]

Text(tmpl) == Msg(tmpl, None, None)

\* ================================================================ strings

\* The printable ASCII characters, code 32 to code 126 (the grave accent, code
\* 96, which no string of the model holds, by name).
Ascii ==
    <<" ", "!", "\"", "#", "$", "%", "&", "'", "(", ")", "*", "+", ",", "-", ".", "/",
      "0", "1", "2", "3", "4", "5", "6", "7", "8", "9", ":", ";", "<", "=", ">", "?",
      "@", "A", "B", "C", "D", "E", "F", "G", "H", "I", "J", "K", "L", "M", "N", "O",
      "P", "Q", "R", "S", "T", "U", "V", "W", "X", "Y", "Z", "[", "\\", "]", "^", "_",
      "GRAVE", "a", "b", "c", "d", "e", "f", "g", "h", "i", "j", "k", "l", "m", "n", "o",
      "p", "q", "r", "s", "t", "u", "v", "w", "x", "y", "z", "{", "|", "}", "~">>

\* The code unit of a character.
Code(c) == 31 + (CHOOSE i \in DOMAIN Ascii : Ascii[i] = c)

Chr(n) == Ascii[n - 31]

Digits == {Chr(n) : n \in 48..57}

Uppers == {Chr(n) : n \in 65..90}

Lowers == {Chr(n) : n \in 97..122}

Alnum == Digits \cup Uppers \cup Lowers

\* String.prototype.toLowerCase
toLowerCase(s) == [i \in DOMAIN s |-> IF s[i] \in Uppers THEN Chr(Code(s[i]) + 32) ELSE s[i]]

\* s.slice(from, to) with 0-based from (inclusive) and to (exclusive).
slice(s, from, to) == SubSeq(s, from + 1, to)

\* Whether pat occurs in s at the 1-based position i.
OccursAt(s, pat, i) ==
    /\ i >= 1
    /\ i + Len(pat) - 1 <= Len(s)
    /\ SubSeq(s, i, i + Len(pat) - 1) = pat

\* The 0-based form of the least (greatest) of a set of 1-based positions, -1
\* for the empty set.
FirstOf(hits) == IF hits = {} THEN -1 ELSE (CHOOSE i \in hits : \A j \in hits : i <= j) - 1

LastOf(hits) == IF hits = {} THEN -1 ELSE (CHOOSE i \in hits : \A j \in hits : i >= j) - 1

\* s.indexOf(pat): 0-based, -1 when pat does not occur.
indexOf(s, pat) == FirstOf({i \in 1..(Len(s) + 1) : OccursAt(s, pat, i)})

\* s.lastIndexOf(pat): 0-based, -1 when pat does not occur.
lastIndexOf(s, pat) == LastOf({i \in 1..(Len(s) + 1) : OccursAt(s, pat, i)})

includes(s, pat) == indexOf(s, pat) # -1

endsWith(s, suffix) == OccursAt(s, suffix, Len(s) - Len(suffix) + 1)

startsWith(s, prefix) == OccursAt(s, prefix, 1)

\* s with the n characters from the 0-based position i replaced by rep; s
\* itself when i is -1.
ReplaceAt(s, i, n, rep) ==
    IF i = -1 THEN s ELSE slice(s, 0, i) \o rep \o slice(s, i + n, Len(s))

\* s.replace(pat, rep) with a string pattern: the first occurrence only.
replace(s, pat, rep) == ReplaceAt(s, indexOf(s, pat), Len(pat), rep)

\* s.replace(/c/g, d) for a one-character pattern.
replaceAll(s, c, d) == [i \in DOMAIN s |-> IF s[i] = c THEN d ELSE s[i]]

\* s.split(sep) for a one-character separator: at least one segment.  SplitAt
\* is given the 0-based position of the first separator.
RECURSIVE split(_, _)
SplitAt(s, i, sep) ==
    IF i = -1 THEN <<s>> ELSE <<slice(s, 0, i)>> \o split(slice(s, i + 1, Len(s)), sep)

split(s, sep) == SplitAt(s, indexOf(s, <<sep>>), sep)

\* s.trim(), the white space being the space character.
RECURSIVE trim(_)
trim(s) ==
    IF s # <<>> /\ s[1] = " " THEN trim(Tail(s))
    ELSE IF s # <<>> /\ s[Len(s)] = " " THEN trim(SubSeq(s, 1, Len(s) - 1))
    ELSE s

\* The order of Array.prototype.sort() on strings: by code units.
RECURSIVE StrLess(_, _)
StrLess(a, b) ==
    IF b = <<>> THEN FALSE
    ELSE IF a = <<>> THEN TRUE
    ELSE IF a[1] # b[1] THEN Code(a[1]) < Code(b[1])
    ELSE StrLess(Tail(a), Tail(b))

Last(seq) == seq[Len(seq)]

\* path.split('/').pop()
basename(path) == Last(split(path, "/"))

\* ============================================================= validators

\* PACKAGE_NAME_REGEX: /^([A-Za-z0-9]|[A-Za-z0-9][A-Za-z0-9._-]*[A-Za-z0-9])$/
MatchesPackageName(s) ==
    /\ Len(s) >= 1
    /\ s[1] \in Alnum
    /\ s[Len(s)] \in Alnum
    /\ \A i \in DOMAIN s : s[i] \in Alnum \cup {".", "_", "-"}

MaxPackageNameLength == 214

\* A validatePackageName that refuses a name of the greatest length.
validatePackageNameBelowLimit(name) ==
    IF name = <<>> THEN FALSE
    ELSE IF Len(trim(name)) = 0 \/ Len(trim(name)) >= 214 THEN FALSE
    ELSE MatchesPackageName(trim(name))

\* validatePackageName, on a string
validatePackageName(name) ==
    IF name = <<>> THEN FALSE
    ELSE LET trimmed == trim(name)
         IN IF Len(trimmed) = 0 \/ Len(trimmed) > MaxPackageNameLength THEN FALSE
            ELSE MatchesPackageName(trimmed)

\* The regular expressions below are matched by the set of positions (the
\* 1-based index of the next unread character) a match of a part can end at;
\* a part that follows another is read from every position the other ends at.
\* [0-9]* read from p
DigitRunEnds(s, p) == {q \in p..(Len(s) + 1) : \A k \in p..(q - 1) : s[k] \in Digits}

\* [1-9][0-9]*
PositiveEnds(s, p) ==
    IF p <= Len(s) /\ s[p] \in Digits \ {"0"} THEN DigitRunEnds(s, p + 1) ELSE {}

\* (0|[1-9][0-9]*)
NumberEnds(s, p) ==
    (IF p <= Len(s) /\ s[p] = "0" THEN {p + 1} ELSE {}) \cup PositiveEnds(s, p)

\* A literal, case-insensitively (the /i flag).
LiteralEnds(s, p, lit) ==
    IF OccursAt(toLowerCase(s), lit, p) THEN {p + Len(lit)} ELSE {}

\* ([1-9][0-9]*!)?
EpochEnds(s, p) ==
    {p} \cup UNION {LiteralEnds(s, q, <<"!">>) : q \in PositiveEnds(s, p)}

\* \.(0|[1-9][0-9]*)
DotNumberEnds(s, p) == UNION {NumberEnds(s, q) : q \in LiteralEnds(s, p, <<".">>)}

MaxExtraSegments == 3

\* (\.(0|[1-9][0-9]*)){0,n}
RECURSIVE SegmentsEnds(_, _, _)
SegmentsEnds(s, P, n) ==
    IF n = 0 THEN P
    ELSE P \cup SegmentsEnds(s, UNION {DotNumberEnds(s, q) : q \in P}, n - 1)

\* (0|[1-9][0-9]*)(\.(0|[1-9][0-9]*)){0,3}
ReleaseEnds(s, p) == SegmentsEnds(s, NumberEnds(s, p), MaxExtraSegments)

\* ((a|b|rc)(0|[1-9][0-9]*))?
PreEnds(s, p) ==
    {p} \cup UNION {NumberEnds(s, q) :
                      q \in LiteralEnds(s, p, <<"a">>) \cup LiteralEnds(s, p, <<"b">>)
                             \cup LiteralEnds(s, p, <<"r", "c">>)}

\* (\.post(0|[1-9][0-9]*))?
PostEnds(s, p) ==
    {p} \cup UNION {NumberEnds(s, q) : q \in LiteralEnds(s, p, <<".", "p", "o", "s", "t">>)}

\* (\.dev(0|[1-9][0-9]*))?
DevEnds(s, p) ==
    {p} \cup UNION {NumberEnds(s, q) : q \in LiteralEnds(s, p, <<".", "d", "e", "v">>)}

\* (\+[a-z0-9]+(\.[a-z0-9]+)*)?
LocalEnds(s, p) ==
    {p} \cup
    (IF p <= Len(s) /\ s[p] = "+"
     THEN {q \in (p + 2)..(Len(s) + 1) :
              /\ \A k \in (p + 1)..(q - 1) : s[k] \in Alnum \cup {"."}
              /\ s[p + 1] # "." /\ s[q - 1] # "."
              /\ \A k \in (p + 1)..(q - 2) : ~(s[k] = "." /\ s[k + 1] = ".")}
     ELSE {})

\* VERSION_REGEX
MatchesVersion(s) ==
    LET afterEpoch   == EpochEnds(s, 1)
        afterRelease == UNION {ReleaseEnds(s, q) : q \in afterEpoch}
        afterPre     == UNION {PreEnds(s, q) : q \in afterRelease}
        afterPost    == UNION {PostEnds(s, q) : q \in afterPre}
        afterDev     == UNION {DevEnds(s, q) : q \in afterPost}
        afterLocal   == UNION {LocalEnds(s, q) : q \in afterDev}
    IN (Len(s) + 1) \in afterLocal

MaxVersionLength == 100

\* validateVersion, on a string
validateVersion(version) ==
    IF version = <<>> THEN FALSE
    ELSE LET trimmed == trim(version)
         IN IF Len(trimmed) = 0 \/ Len(trimmed) > MaxVersionLength THEN FALSE
            ELSE MatchesVersion(trimmed)

ExtTarGz == <<".", "t", "a", "r", ".", "g", "z">>

ExtWhl == <<".", "w", "h", "l">>

ExtEgg == <<".", "e", "g", "g">>

ExtZip == <<".", "z", "i", "p">>

validExtensions == <<ExtTarGz, ExtWhl, ExtEgg, ExtZip>>

\* validateDistributionPath, on a string
validateDistributionPath(filePath) ==
    IF filePath = <<>> THEN FALSE
    ELSE \E i \in DOMAIN validExtensions : endsWith(filePath, validExtensions[i])

\* ============================================================ upload library

\* A file system is a function from the paths of its files to their sizes.
exists(fs, path) == path \in DOMAIN fs

EmptyMetadata == [name |-> None, version |-> None]

\* The truthiness of an optional string: undefined and '' are falsy.
Truthy(s) == s # None /\ s[1] # <<>>

MinWheelParts == 5

\* The name and version of the dash-separated parts of a wheel's file name.
wheelMetadata(parts) ==
    IF Len(parts) < MinWheelParts THEN EmptyMetadata
    ELSE [name |-> Some(replaceAll(parts[1], "_", "-")), version |-> Some(parts[2])]

\* extractMetadataFromWheel
extractMetadataFromWheel(filePath) ==
    wheelMetadata(split(replace(basename(filePath), ExtWhl, <<>>), "-"))

\* The name taken as it stands in the file name.
sdistMetadataRawName(nameVersion, lastDash) ==
    IF lastDash = -1 THEN EmptyMetadata
    ELSE [name    |-> Some(slice(nameVersion, 0, lastDash)),
          version |-> Some(slice(nameVersion, lastDash + 1, Len(nameVersion)))]

\* The name and version either side of the dash at the 0-based position
\* lastDash of an sdist's file name without its extension.
sdistMetadata(nameVersion, lastDash) ==
    IF lastDash = -1 THEN EmptyMetadata
    ELSE [name    |-> Some(replaceAll(slice(nameVersion, 0, lastDash), "_", "-")),
          version |-> Some(slice(nameVersion, lastDash + 1, Len(nameVersion)))]

\* nameVersion.lastIndexOf('-') and what follows it
sdistSplit(nameVersion) == sdistMetadata(nameVersion, lastIndexOf(nameVersion, <<"-">>))

\* extractMetadataFromSdist
extractMetadataFromSdist(filePath) == sdistSplit(replace(basename(filePath), ExtTarGz, <<>>))

\* The metadata both uploadToRepository and validateDistribution extract.
extractMetadata(filePath) ==
    IF endsWith(filePath, ExtWhl) THEN extractMetadataFromWheel(filePath)
    ELSE IF endsWith(filePath, ExtTarGz) THEN extractMetadataFromSdist(filePath)
    ELSE EmptyMetadata

\* const maxSize = 100 * 1024 * 1024
maxSize == 104857600

smallSize == 1024

suspiciousPatterns ==
    << <<".", "e", "n", "v">>,
       <<"c", "r", "e", "d", "e", "n", "t", "i", "a", "l", "s">>,
       <<"s", "e", "c", "r", "e", "t">>,
       <<"p", "a", "s", "s", "w", "o", "r", "d">>,
       <<".", "k", "e", "y">> >>

When(cond, msg) == IF cond THEN <<msg>> ELSE <<>>

RECURSIVE SuspiciousWarnings(_, _)
SuspiciousWarnings(lowerFilename, i) ==
    IF i > Len(suspiciousPatterns) THEN <<>>
    ELSE When(includes(lowerFilename, suspiciousPatterns[i]),
              Msg("Filename contains suspicious pattern: {str}", None,
                  Some(suspiciousPatterns[i])))
         \o SuspiciousWarnings(lowerFilename, i + 1)

\* Errors collected with the checks stopping at the first one that fails.
validationErrorsFirstOnly(filePath, size, metadata) ==
    IF ~validateDistributionPath(filePath)
    THEN <<Text("Invalid file extension. Expected .tar.gz, .whl, .egg, or .zip")>>
    ELSE IF size > maxSize
    THEN <<Msg("File size ({num}) exceeds PyPI limit of 100MB", Some(size), None)>>
    ELSE IF Truthy(metadata.name) /\ ~validatePackageName(metadata.name[1])
    THEN <<Msg("Invalid package name: {str}", None, metadata.name)>>
    ELSE IF Truthy(metadata.version) /\ ~validateVersion(metadata.version[1])
    THEN <<Msg("Invalid version (not PEP 440 compliant): {str}", None, metadata.version)>>
    ELSE When(includes(basename(filePath), <<" ">>), Text("Filename contains spaces"))

\* Errors collected with the size limit itself refused.
validationErrorsAtLimit(filePath, size, metadata) ==
    When(~validateDistributionPath(filePath),
         Text("Invalid file extension. Expected .tar.gz, .whl, .egg, or .zip"))
    \o When(size >= maxSize,
            Msg("File size ({num}) exceeds PyPI limit of 100MB", Some(size), None))
    \o When(Truthy(metadata.name) /\ ~validatePackageName(metadata.name[1]),
            Msg("Invalid package name: {str}", None, metadata.name))
    \o When(Truthy(metadata.version) /\ ~validateVersion(metadata.version[1]),
            Msg("Invalid version (not PEP 440 compliant): {str}", None, metadata.version))
    \o When(includes(basename(filePath), <<" ">>), Text("Filename contains spaces"))

\* Errors collected with the version left unchecked.
validationErrorsVersionUnchecked(filePath, size, metadata) ==
    When(~validateDistributionPath(filePath),
         Text("Invalid file extension. Expected .tar.gz, .whl, .egg, or .zip"))
    \o When(size > maxSize,
            Msg("File size ({num}) exceeds PyPI limit of 100MB", Some(size), None))
    \o When(Truthy(metadata.name) /\ ~validatePackageName(metadata.name[1]),
            Msg("Invalid package name: {str}", None, metadata.name))
    \o When(includes(basename(filePath), <<" ">>), Text("Filename contains spaces"))

\* The errors validateDistribution collects for a file that exists.  formatBytes'
\* rendering of the size is not modelled: a size message carries the bytes.
validationErrors(filePath, size, metadata) ==
    When(~validateDistributionPath(filePath),
         Text("Invalid file extension. Expected .tar.gz, .whl, .egg, or .zip"))
    \o When(size > maxSize,
            Msg("File size ({num}) exceeds PyPI limit of 100MB", Some(size), None))
    \o When(Truthy(metadata.name) /\ ~validatePackageName(metadata.name[1]),
            Msg("Invalid package name: {str}", None, metadata.name))
    \o When(Truthy(metadata.version) /\ ~validateVersion(metadata.version[1]),
            Msg("Invalid version (not PEP 440 compliant): {str}", None, metadata.version))
    \o When(includes(basename(filePath), <<" ">>), Text("Filename contains spaces"))

\* The warnings validateDistribution collects for a file that exists.
validationWarnings(filePath, size, metadata) ==
    When(size < smallSize, Msg("File size ({num}) is very small", Some(size), None))
    \o When(~Truthy(metadata.name), Text("Could not extract package name from file"))
    \o When(~Truthy(metadata.version), Text("Could not extract version from file"))
    \o SuspiciousWarnings(toLowerCase(basename(filePath)), 1)

\* A result that warnings make invalid too.
ValidationResultClean(errors, warnings) ==
    [valid |-> errors = <<>> /\ warnings = <<>>, errors |-> errors, warnings |-> warnings]

\* { valid: errors.length === 0, errors, warnings }
ValidationResult(errors, warnings) ==
    [valid |-> errors = <<>>, errors |-> errors, warnings |-> warnings]

\* A validateDistribution that goes on to its other checks for a missing file.
validateDistributionNoReturn(fs, filePath) ==
    ValidationResult(
        When(~exists(fs, filePath), Msg("File not found: {str}", None, Some(filePath)))
        \o validationErrors(filePath, IF exists(fs, filePath) THEN fs[filePath] ELSE 0,
                            extractMetadata(filePath)),
        validationWarnings(filePath, IF exists(fs, filePath) THEN fs[filePath] ELSE 0,
                           extractMetadata(filePath)))

\* validateDistribution of upload.ts
validateDistribution(fs, filePath) ==
    IF ~exists(fs, filePath)
    THEN [valid |-> FALSE, errors |-> <<Msg("File not found: {str}", None, Some(filePath))>>,
          warnings |-> <<>>]
    ELSE ValidationResult(validationErrors(filePath, fs[filePath], extractMetadata(filePath)),
                          validationWarnings(filePath, fs[filePath], extractMetadata(filePath)))

\* A set of strings as the sequence files.sort() leaves it in.
RECURSIVE SortStrings(_)
SortStrings(S) ==
    IF S = {} THEN <<>>
    ELSE LET first == CHOOSE a \in S : \A b \in S \ {a} : StrLess(a, b)
         IN <<first>> \o SortStrings(S \ {first})

\* getDistributionFiles without its files.sort(): the files in the order of the
\* scan, here the reverse of the sorted one.
getDistributionFilesUnsorted(fs, dirPath) ==
    LET sorted == SortStrings({p \in DOMAIN fs :
                                 /\ startsWith(p, dirPath \o <<"/">>)
                                 /\ validateDistributionPath(p)})
    IN  [i \in 1..Len(sorted) |-> sorted[Len(sorted) + 1 - i]]

\* getDistributionFiles: the files under dirPath the glob **/*.{tar.gz,whl,egg,zip}
\* matches, as `${dirPath}/${file}`, sorted.
getDistributionFiles(fs, dirPath) ==
    SortStrings({p \in DOMAIN fs :
                    /\ startsWith(p, dirPath \o <<"/">>)
                    /\ validateDistributionPath(p)})

\* ========================================================== configuration

\* CONFIG_FILE_PATHS, each path naming a file of the machine.
CONFIG_FILE_PATHS == <<".pypi.json", "~/.pypi/config.json", "~/.pypi.json">>

\* getConfigPath(): expandPath('~/.pypi/config.json')
getConfigPath == "~/.pypi/config.json"

\* A config file is None (no such file) or Some([json |-> whether its text
\* parses, config |-> the parsed object]); a Config is a function from the keys
\* it holds to their values.
EmptyConfig == [k \in {} |-> None]

\* The object a record stands for.
ConfigOf(rec) == [k \in DOMAIN rec |-> rec[k]]

Field(config, key) == IF key \in DOMAIN config THEN Some(config[key]) ELSE None

\* { ...config, [key]: value }
With(config, key, value) ==
    [k \in DOMAIN config \cup {key} |-> IF k = key THEN value ELSE config[k]]

UrlPyPI ==
    <<"h", "t", "t", "p", "s", ":", "/", "/", "u", "p", "l", "o", "a", "d", ".",
      "p", "y", "p", "i", ".", "o", "r", "g", "/", "l", "e", "g", "a", "c", "y", "/">>

UrlTestPyPI ==
    <<"h", "t", "t", "p", "s", ":", "/", "/", "t", "e", "s", "t", ".",
      "p", "y", "p", "i", ".", "o", "r", "g", "/", "l", "e", "g", "a", "c", "y", "/">>

\* DEFAULT_CONFIG
DEFAULT_CONFIG ==
    [repository |-> UrlPyPI, outputFormat |-> "pretty", colorOutput |-> TRUE,
     timeout |-> 30000, retries |-> 3]

\* JSON.parse(readFileSync(path)).apiToken; undefined when the read or the parse
\* throws.
readApiToken(file) ==
    IF file = None \/ ~file[1].json THEN None ELSE Field(file[1].config, "apiToken")

\* getApiToken with the environment consulted before the override.
getApiTokenEnvFirst(files, envToken, override) ==
    IF Truthy(envToken) THEN envToken
    ELSE IF Truthy(override) THEN override
    ELSE readApiToken(files[CONFIG_FILE_PATHS[1]])

\* getApiToken(override): the override, else process.env.PYPI_API_TOKEN, else the
\* apiToken of the file at CONFIG_FILE_PATHS[0].
getApiToken(files, envToken, override) ==
    IF Truthy(override) THEN override
    ELSE IF Truthy(envToken) THEN envToken
    ELSE readApiToken(files[CONFIG_FILE_PATHS[1]])

\* loadConfigSync(): the file at getConfigPath(), {} when missing or invalid.
loadConfigSync(files) ==
    IF files[getConfigPath] = None \/ ~files[getConfigPath][1].json THEN EmptyConfig
    ELSE files[getConfigPath][1].config

\* saveConfig(config): the file at getConfigPath() is rewritten whole.
saveConfig(files, config) ==
    [files EXCEPT ![getConfigPath] = Some([json |-> TRUE, config |-> config])]

\* initConfig(apiToken): JSON.stringify drops an undefined apiToken.
initConfig(files, apiToken) ==
    LET base == ConfigOf([repository |-> UrlPyPI, outputFormat |-> "pretty",
                          colorOutput |-> TRUE])
        config == IF apiToken = None THEN base ELSE With(base, "apiToken", apiToken[1])
    IN [files EXCEPT ![CONFIG_FILE_PATHS[2]] = Some([json |-> TRUE, config |-> config])]

\* findConfigFile / loadConfigFile: the first file of CONFIG_FILE_PATHS that
\* exists, {} when there is none.  A file that does not parse makes
\* loadConfigFile throw: None.
loadConfigFile(files) ==
    LET found == {i \in DOMAIN CONFIG_FILE_PATHS : files[CONFIG_FILE_PATHS[i]] # None}
    IN IF found = {} THEN Some(EmptyConfig)
       ELSE LET first == CHOOSE i \in found : \A j \in found : i <= j
                file  == files[CONFIG_FILE_PATHS[first]][1]
            IN IF file.json THEN Some(file.config) ELSE None

\* mergeConfig(fileConfig, envConfig).repository
mergedRepository(fileConfig, envRepository) ==
    IF Truthy(envRepository) THEN envRepository[1]
    ELSE IF Truthy(Field(fileConfig, "repository")) THEN fileConfig["repository"]
    ELSE DEFAULT_CONFIG.repository

validKeys == {"apiToken", "repository", "outputFormat", "colorOutput", "timeout", "retries"}

\* The number the first n characters of a digit string spell.
RECURSIVE DecimalValue(_, _)
DecimalValue(s, n) ==
    IF n = 0 THEN 0 ELSE 10 * DecimalValue(s, n - 1) + (Code(s[n]) - 48)

\* parseInt(value, 10): None for NaN.
parseInt(value) ==
    LET s      == trim(value)
        signed == s # <<>> /\ s[1] \in {"+", "-"}
        body   == IF signed THEN Tail(s) ELSE s
        ends   == DigitRunEnds(body, 1)
        n      == (CHOOSE q \in ends : \A r \in ends : q >= r) - 1
    IN IF n = 0 THEN None
       ELSE Some(IF signed /\ s[1] = "-" THEN 0 - DecimalValue(body, n)
                 ELSE DecimalValue(body, n))

\* setCommand's parsedValue: None when the command exits on an invalid number.
parsedValue(key, value) ==
    IF key = "colorOutput" THEN Some(toLowerCase(value) = <<"t", "r", "u", "e">>)
    ELSE IF key \in {"timeout", "retries"} THEN parseInt(value)
    ELSE Some(value)

\* =============================================================== uploaders

RepoPyPI == <<"p", "y", "p", "i">>

RepoTestPyPI == <<"t", "e", "s", "t", "p", "y", "p", "i">>

\* REPOSITORIES
REPOSITORIES ==
    (RepoPyPI :> [name |-> "PyPI", url |-> UrlPyPI])
    @@ (RepoTestPyPI :> [name |-> "TestPyPI", url |-> UrlTestPyPI])

\* REPOSITORIES[repository]?.url || repository
uploadUrl(repository) ==
    IF repository \in DOMAIN REPOSITORIES THEN REPOSITORIES[repository].url ELSE repository

\* The base64 alphabet.
B64 ==
    <<"A", "B", "C", "D", "E", "F", "G", "H", "I", "J", "K", "L", "M", "N", "O", "P",
      "Q", "R", "S", "T", "U", "V", "W", "X", "Y", "Z", "a", "b", "c", "d", "e", "f",
      "g", "h", "i", "j", "k", "l", "m", "n", "o", "p", "q", "r", "s", "t", "u", "v",
      "w", "x", "y", "z", "0", "1", "2", "3", "4", "5", "6", "7", "8", "9", "+", "/">>

\* The four characters btoa makes of the bytes 3g+1 .. 3g+3 of s, padded with
\* '=' where s ends before them.
B64Group(s, g) ==
    LET n == Len(s)
        byte(i) == IF i <= n THEN Code(s[i]) ELSE 0
        v == byte(3 * g + 1) * 65536 + byte(3 * g + 2) * 256 + byte(3 * g + 3)
    IN << B64[(v \div 262144) + 1],
          B64[((v \div 4096) % 64) + 1],
          IF 3 * g + 2 <= n THEN B64[((v \div 64) % 64) + 1] ELSE "=",
          IF 3 * g + 3 <= n THEN B64[(v % 64) + 1] ELSE "=" >>

RECURSIVE B64Groups(_, _)
B64Groups(s, g) == IF 3 * g >= Len(s) THEN <<>> ELSE B64Group(s, g) \o B64Groups(s, g + 1)

\* btoa(s)
btoa(s) == B64Groups(s, 0)

\* An UploadResult; statusCode and url are None where the code leaves them out.
UploadResult(success, message, statusCode, url) ==
    [success |-> success, message |-> message, statusCode |-> statusCode, url |-> url]

\* What fetch resolves or rejects with: an HTTP response with its status and
\* body text, the abort of the 60 second timer, or a transport failure.
HttpResponse(status, body) == [kind |-> "http", status |-> status, body |-> body]

AbortError == [kind |-> "abort", status |-> 0, body |-> ""]

FetchFailed == [kind |-> "network", status |-> 0, body |-> "Unable to connect"]

UploadResponses ==
    { HttpResponse(200, ""), HttpResponse(403, "Forbidden"), HttpResponse(409, "Conflict"),
      HttpResponse(400, "Bad Request"), HttpResponse(500, ""), AbortError, FetchFailed }

\* response.ok
responseOk(response) == response.status >= 200 /\ response.status <= 299

\* `File not found: ${filePath}`, the result of both uploaders for a missing file.
fileNotFound(filePath) ==
    UploadResult(FALSE, Msg("File not found: {str}", None, Some(filePath)), None, None)

\* errorText || `Upload failed with status ${response.status}`
errorTextOrStatus(response) ==
    IF response.body # "" THEN Text(response.body)
    ELSE Msg("Upload failed with status {num}", Some(response.status), None)

BasicPrefix == <<"B", "a", "s", "i", "c", " ">>

BearerPrefix == <<"B", "e", "a", "r", "e", "r", " ">>

TokenUser == <<"_", "_", "t", "o", "k", "e", "n", "_", "_", ":">>

\* The request uploadToRepository hands to fetch: the URL, the Authorization
\* header, the file of the content field and the metadata fields of the form.
uploadToRepositoryRequest(cmd, filePath, token, repository) ==
    LET metadata == extractMetadata(filePath)
    IN [cmd           |-> cmd,
        via           |-> "uploadToRepository",
        url           |-> uploadUrl(repository),
        authorization |-> BasicPrefix \o btoa(TokenUser \o token),
        file          |-> filePath,
        name          |-> IF Truthy(metadata.name) THEN metadata.name ELSE None,
        version       |-> IF Truthy(metadata.version) THEN metadata.version ELSE None]

UrlPyPIWeb == <<"h", "t", "t", "p", "s", ":", "/", "/", "p", "y", "p", "i", ".", "o", "r", "g">>

UrlTestPyPIWeb ==
    <<"h", "t", "t", "p", "s", ":", "/", "/", "t", "e", "s", "t", ".",
      "p", "y", "p", "i", ".", "o", "r", "g">>

ProjectSegment == <<"/", "p", "r", "o", "j", "e", "c", "t", "/">>

Unknown == <<"u", "n", "k", "n", "o", "w", "n">>

\* The projectUrl of uploadToRepository's success result.
projectUrl(filePath, repository) ==
    LET metadata    == extractMetadata(filePath)
        fromFile    == split(basename(filePath), "-")[1]
        packageName == IF Truthy(metadata.name) THEN metadata.name[1]
                       ELSE IF fromFile # <<>> THEN fromFile ELSE Unknown
        version     == IF Truthy(metadata.version) THEN metadata.version[1] ELSE <<>>
        repoUrl     == IF repository = RepoTestPyPI THEN UrlTestPyPIWeb ELSE UrlPyPIWeb
    IN IF version # <<>>
       THEN repoUrl \o ProjectSegment \o packageName \o <<"/">> \o version \o <<"/">>
       ELSE repoUrl \o ProjectSegment \o packageName \o <<"/">>

\* The UploadResult uploadToRepository makes of what fetch gave.
uploadToRepositoryResult(filePath, repository, response) ==
    IF response.kind = "abort"
    THEN UploadResult(FALSE, Text("Upload timeout after 60 seconds"), None, None)
    ELSE IF response.kind = "network"
    THEN UploadResult(FALSE, Text(response.body), None, None)
    ELSE IF ~responseOk(response)
    THEN IF response.status = 403
         THEN UploadResult(FALSE, Text("Authentication failed. Check your API token."),
                           Some(response.status), None)
         ELSE IF response.status = 409
         THEN UploadResult(FALSE, Text("File already exists on repository."),
                           Some(response.status), None)
         ELSE UploadResult(FALSE, errorTextOrStatus(response), Some(response.status), None)
    ELSE UploadResult(TRUE, Text("Package uploaded successfully"), None,
                      Some(projectUrl(filePath, repository)))

\* The request PyPIUploader.upload hands to fetch: a Bearer header and no
\* metadata fields.
PyPIUploaderRequest(cmd, uploaderUrl, filePath, token) ==
    [cmd           |-> cmd,
     via           |-> "PyPIUploader.upload",
     url           |-> uploaderUrl,
     authorization |-> BearerPrefix \o token,
     file          |-> filePath,
     name          |-> None,
     version       |-> None]

\* The UploadResult PyPIUploader.upload makes of what fetch gave.
PyPIUploaderResult(filePath, response) ==
    IF response.kind = "abort"
    THEN UploadResult(FALSE, Text("Upload timeout"), None, None)
    ELSE IF response.kind = "network"
    THEN UploadResult(FALSE, Text(response.body), None, None)
    ELSE IF ~responseOk(response)
    THEN UploadResult(FALSE, errorTextOrStatus(response), Some(response.status), None)
    ELSE UploadResult(TRUE, Text("Package uploaded successfully"), None,
                      Some(UrlPyPIWeb \o ProjectSegment \o split(filePath, "-")[1] \o <<"/">>))

\* ================================================================ commands

VARIABLES
    optMaxRetries,  \* options.maxRetries given to the constructor (None: not given)
    optTimeout,     \* options.timeout given to the constructor (None: not given)
    attempt,        \* the retry loop's counter
    rpc,            \* where request() is: "idle", "loop", "fetch", "sleep", "done"
    sent,           \* the number of fetch calls made
    responses,      \* what each fetch call ended with, in order
    delays,         \* the sleep() calls made, in order (ms)
    lastError,      \* request()'s lastError
    outcome         \* None while running; what request() returned or threw

VARIABLES
    method,         \* the method of PyPIClient that calls request() ("none": none)
    methodResult    \* None until that method has ended; then what it returned or threw

callVars == <<method, methodResult>>

reqVars == <<optMaxRetries, optTimeout, attempt, rpc, sent, responses, delays,
             lastError, outcome, callVars>>

VARIABLES
    env,            \* process.env: PYPI_API_TOKEN and PYPI_REPOSITORY (None: not set)
    configFiles,    \* the file at each path of CONFIG_FILE_PATHS (None: no such file)
    disk,           \* the files of the working directory: path -> size in bytes
    stored,         \* the token `config set apiToken` or `config init` saved last
    script,         \* the command lines still to run, in order
    cmd,            \* the command line that is running, or that ran last
    pc,             \* "shell", "validate", "validating", "confirm", "upload", "uploading"
    exitCode,       \* the exit code of the command that ran last (None: running)
    token,          \* publishAction / uploadAction: token
    repository,     \* publishAction / uploadAction: repository
    files,          \* publishAction: files
    distributions,  \* publishAction: distributions
    hasErrors,      \* publishAction: hasErrors
    idx,            \* the position of the running for-of loop, from 1
    uploadedCount,  \* publishAction: uploadedCount
    failedCount,    \* publishAction: failedCount
    requests,       \* the upload requests handed to fetch by this command, in order
    lastResponse,   \* what the last of them ended with
    lastResult,     \* the UploadResult made of it
    conflictAt,     \* the number of requests sent when the first 409 came
    forbiddenAt     \* the number of requests sent when the first 403 came

machineVars == <<env, configFiles, disk>>

runVars == <<token, repository, files, distributions, hasErrors, idx, uploadedCount,
             failedCount, requests, lastResponse, lastResult, conflictAt, forbiddenAt>>

VARIABLES
    answer,         \* publishAction: answer (None: the prompt has not been answered)
    inFlight,       \* the validations and uploads awaited and not settled yet
    fileStates      \* publishAction: the places each file of `files` has been at, in order:
                    \* "Pending", "Validating", "ValidationFailed", "Validated",
                    \* "Uploading", "Uploaded", "UploadFailed"

flowVars == <<inFlight, fileStates>>

cliVars == <<machineVars, stored, script, cmd, pc, exitCode, runVars, answer, flowVars>>

VARIABLES
    libCall,        \* the library function called and its argument (NoCall: none)
    libResult       \* None until the call has ended; then what it returned or threw

VARIABLES
    cache,          \* SimpleCache.cache: key -> [data, timestamp, ttl]
    now,            \* Date.now()
    lastOp,         \* the last call of a method of the cache, with what it returned
    written         \* per key, the entry of the last set() that no delete() or clear()
                    \* followed (None: there is none)

cacheVars == <<cache, now, lastOp, written>>

libVars == <<libCall, libResult, cacheVars>>

vars == <<reqVars, cliVars, libVars>>

\* No library function is called on its own.
NoCall == [fn |-> "none"]

\* The keys, values and lifetimes the cache is used with.
CacheKeys == {"stats:requests", "stats:flask"}

CacheValues == {"v1", "v2"}

TTLs == {0, 1, 2}

NoOp == [op |-> "none", key |-> "", value |-> None, ttl |-> 0, at |-> 0, had |-> FALSE,
         size |-> 0]

\* new SimpleCache(), at time 0
CacheIdle ==
    /\ cache = [k \in {} |-> None]
    /\ now = 0
    /\ lastOp = NoOp
    /\ written = [k \in CacheKeys |-> None]

LibIdle == libCall = NoCall /\ libResult = None /\ CacheIdle

\* ------------------------------------------------------------------ inputs

\* The most distribution files a working directory holds.
MaxFiles == 3

\* The most config commands run before the publish or upload command.
MaxConfigCommands == 1

TokFlag == <<"t", "F">>

TokEnv == <<"t", "E">>

TokProject == <<"t", "P">>

TokHome == <<"t", "H">>

TokSet == <<"t", "S">>

UrlCustom == <<"h", "t", "t", "p", "s", ":", "/", "/", "x", "/">>

DistDir == <<"d">>

Sdist == <<"d", "/", "a", "-", "1", ".", "0", ".", "t", "a", "r", ".", "g", "z">>

Wheel ==
    <<"d", "/", "a", "-", "1", ".", "0", "-", "p", "y", "3", "-", "n", "o", "n", "e", "-",
      "a", "n", "y", ".", "w", "h", "l">>

BadVersion == <<"d", "/", "a", "-", "x", ".", "t", "a", "r", ".", "g", "z">>

TooBig == <<"d", "/", "b", "-", "2", ".", "0", ".", "t", "a", "r", ".", "g", "z">>

Zip == <<"d", "/", "c", ".", "z", "i", "p">>

Readme == <<"d", "/", "R", "E", "A", "D", "M", "E">>

Missing == <<"d", "/", "g", "-", "1", ".", "0", ".", "t", "a", "r", ".", "g", "z">>

DistributionFiles == {Sdist, Wheel, BadVersion, TooBig, Zip}

\* The size of each file a working directory may hold: TooBig is one byte above
\* the limit, Zip is below the small-file threshold.
Sizes ==
    (Sdist :> 2048) @@ (Wheel :> 4096) @@ (BadVersion :> 2048)
    @@ (TooBig :> 104857601) @@ (Zip :> 10) @@ (Readme :> 100)

\* The working directories: at most MaxFiles distribution files beside a file
\* that is no distribution.
Disks ==
    { [p \in S \cup {Readme} |-> Sizes[p]] :
        S \in {T \in SUBSET DistributionFiles : Cardinality(T) <= MaxFiles} }

\* A command line: the command, its argument and its options.
NoCommand ==
    [name |-> "none", path |-> <<>>, token |-> None, repository |-> None,
     yes |-> FALSE, dryRun |-> FALSE, key |-> "", value |-> <<>>]

\* pypi publish [path] [-t token] [-r repository] [-y] [--dry-run]
PublishCmd(path, tok, repo, yes, dryRun) ==
    [NoCommand EXCEPT !.name = "publish", !.path = path, !.token = tok,
                      !.repository = repo, !.yes = yes, !.dryRun = dryRun]

\* pypi publish upload <file> [-t token] [-r repository]
UploadCmd(file, tok, repo) ==
    [NoCommand EXCEPT !.name = "upload", !.path = file, !.token = tok, !.repository = repo]

\* pypi config set <key> <value>
ConfigSetCmd(key, value) ==
    [NoCommand EXCEPT !.name = "config set", !.key = key, !.value = value]

\* pypi config init, with the line typed at its prompt
ConfigInitCmd(line) == [NoCommand EXCEPT !.name = "config init", !.value = line]

\* new PyPIUploader(uploadUrl).upload(filePath, token)
UploaderCall(uploaderUrl, filePath, tok) ==
    [NoCommand EXCEPT !.name = "PyPIUploader.upload", !.path = filePath,
                      !.token = Some(tok), !.repository = uploaderUrl]

RepositoryFlags == {None, Some(RepoTestPyPI), Some(UrlCustom)}

\* The publish, upload and uploader runs of the first family of inputs.
TransferCommands ==
    {PublishCmd(DistDir, None, r, y, d) : r \in RepositoryFlags, y \in BOOLEAN, d \in BOOLEAN}
    \cup {UploadCmd(f, None, r) :
            f \in DistributionFiles \cup {Readme, Missing}, r \in RepositoryFlags}
    \cup {UploaderCall(u, f, TokFlag) : u \in {None, Some(UrlCustom)}, f \in {Sdist, Missing}}

\* The config commands of the second family of inputs.
ConfigCommands ==
    { ConfigSetCmd("apiToken", TokSet), ConfigSetCmd("timeout", <<"1", "2">>),
      ConfigSetCmd("timeout", <<"a", "b", "c">>), ConfigSetCmd("retries", <<"1", "2", "a", "b", "c">>),
      ConfigSetCmd("colorOutput", <<"T", "r", "u", "e">>),
      ConfigSetCmd("token", TokSet), ConfigInitCmd(<<" ", "t", "S", " ">>), ConfigInitCmd(<<>>) }

TokenFlags == {None, Some(<<>>), Some(TokFlag)}

\* The command the second family ends with.
FinalCommands ==
    {PublishCmd(DistDir, t, None, TRUE, d) : t \in TokenFlags, d \in BOOLEAN}
    \cup {UploadCmd(Sdist, t, None) : t \in TokenFlags}

RECURSIVE SeqsUpTo(_, _)
SeqsUpTo(S, n) ==
    IF n = 0 THEN {<<>>}
    ELSE SeqsUpTo(S, n - 1) \cup {Append(s, c) : s \in SeqsUpTo(S, n - 1), c \in S}

\* A config file with the given content.
ConfigFile(rec) == Some([json |-> TRUE, config |-> ConfigOf(rec)])

InvalidFile == Some([json |-> FALSE, config |-> EmptyConfig])

\* ----------------------------------------------------------------- actions

\* No request() call is under way.
ReqIdle ==
    /\ optMaxRetries = None
    /\ optTimeout = None
    /\ attempt = 0
    /\ rpc = "idle"
    /\ sent = 0
    /\ responses = <<>>
    /\ delays = <<>>
    /\ lastError = None
    /\ outcome = None
    /\ method = "none"
    /\ methodResult = None

\* No command has run yet.
FreshRun ==
    /\ token = None
    /\ repository = <<>>
    /\ files = <<>>
    /\ distributions = <<>>
    /\ hasErrors = FALSE
    /\ idx = 1
    /\ uploadedCount = 0
    /\ failedCount = 0
    /\ requests = <<>>
    /\ lastResponse = None
    /\ lastResult = None
    /\ conflictAt = None
    /\ forbiddenAt = None
    /\ answer = None
    /\ inFlight = {}
    /\ fileStates = <<>>

\* First family: one publish, upload or uploader run over every working
\* directory, the token coming from the environment.
InitTransfer ==
    /\ env = [PYPI_API_TOKEN |-> Some(TokEnv), PYPI_REPOSITORY |-> None]
    /\ configFiles = [p \in {CONFIG_FILE_PATHS[i] : i \in 1..3} |-> None]
    /\ disk \in Disks
    /\ script \in {<<c>> : c \in TransferCommands}

\* Second family: every environment and every pair of config files, up to
\* MaxConfigCommands config commands, then one command that needs the token.
InitConfigured ==
    /\ env \in [PYPI_API_TOKEN : {None, Some(<<>>), Some(TokEnv)},
                PYPI_REPOSITORY : {None, Some(UrlTestPyPI)}]
    /\ \E project \in {None, InvalidFile, ConfigFile([apiToken |-> TokProject])},
          home \in {None, ConfigFile([apiToken |-> TokHome, repository |-> UrlCustom])} :
          configFiles = (CONFIG_FILE_PATHS[1] :> project) @@ (CONFIG_FILE_PATHS[2] :> home)
                        @@ (CONFIG_FILE_PATHS[3] :> None)
    /\ disk = [p \in {Sdist, Readme} |-> Sizes[p]]
    /\ script \in {Append(s, c) : s \in SeqsUpTo(ConfigCommands, MaxConfigCommands),
                                  c \in FinalCommands}

\* No command line is to run.
CliIdle ==
    /\ env = [PYPI_API_TOKEN |-> None, PYPI_REPOSITORY |-> None]
    /\ configFiles = [p \in {CONFIG_FILE_PATHS[i] : i \in 1..3} |-> None]
    /\ disk = [p \in {Readme} |-> Sizes[p]]
    /\ script = <<>>
    /\ stored = None
    /\ cmd = NoCommand
    /\ pc = "shell"
    /\ exitCode = None
    /\ FreshRun

CliInit ==
    /\ InitTransfer \/ InitConfigured
    /\ stored = None
    /\ cmd = NoCommand
    /\ pc = "shell"
    /\ exitCode = None
    /\ FreshRun
    /\ ReqIdle
    /\ LibIdle

\* process.exit(code), or the action returning (code 0).
Exit(code) ==
    /\ pc' = "shell"
    /\ exitCode' = Some(code)

\* The shell starts the next command line.
Start(name) ==
    /\ pc = "shell"
    /\ script # <<>>
    /\ Head(script).name = name
    /\ cmd' = Head(script)
    /\ script' = Tail(script)

\* commander's default for -r, then options.repository || 'pypi'
repositoryOption(flag) ==
    OrElse(Some(OrElse(flag, {}, RepoPyPI)), {<<>>}, RepoPyPI)

\* pypi config set <key> <value>
ConfigSet ==
    /\ Start("config set")
    /\ LET c      == Head(script)
           config == loadConfigSync(configFiles)
           parsed == parsedValue(c.key, c.value)
       IN IF c.key \notin validKeys \/ parsed = None
          THEN /\ Exit(1)
               /\ UNCHANGED <<configFiles, stored>>
          ELSE /\ configFiles' = saveConfig(configFiles, With(config, c.key, parsed[1]))
               /\ stored' = IF c.key = "apiToken" THEN Some(c.value) ELSE stored
               /\ Exit(0)
    /\ UNCHANGED <<env, disk, runVars, answer, flowVars, reqVars, libVars>>

\* pypi config init: initConfig(apiToken?.trim() || undefined)
ConfigInit ==
    /\ Start("config init")
    /\ LET typed    == trim(Head(script).value)
           apiToken == IF typed = <<>> THEN None ELSE Some(typed)
       IN /\ configFiles' = initConfig(configFiles, apiToken)
          /\ stored' = apiToken
    /\ Exit(0)
    /\ UNCHANGED <<env, disk, runVars, answer, flowVars, reqVars, libVars>>

\* if (!result.valid) hasErrors = true, with the one-file mistake before it
batchHasErrorsLastOnly(errors, result) == ~result.valid

batchHasErrors(errors, result) == errors \/ ~result.valid

\* if (!options.dryRun) { token = getApiToken(...) ... }, with the mistake of
\* asking for the token in every mode before it
requiresTokenAlways(options) == TRUE

requiresToken(options) == ~options.dryRun

\* An awaited call on a file: op is "validate" or "upload".
Awaited(op, filePath) == [op |-> op, file |-> filePath]

\* publishAction up to the validation loop: the token, the repository and the
\* distribution files.
PublishStart ==
    /\ Start("publish")
    /\ LET c     == Head(script)
           tok   == IF requiresToken(c)
                    THEN getApiToken(configFiles, env.PYPI_API_TOKEN, c.token)
                    ELSE None
           found == getDistributionFiles(disk, c.path)
       IN /\ token' = tok
          /\ IF requiresToken(c) /\ ~Truthy(tok)
             THEN /\ Exit(1)
                  /\ repository' = <<>>
                  /\ files' = <<>>
             ELSE /\ repository' = repositoryOption(c.repository)
                  /\ files' = found
                  /\ IF found = <<>> THEN Exit(1)
                     ELSE pc' = "validate" /\ exitCode' = None
    /\ answer' = None
    /\ inFlight' = {}
    /\ fileStates' = [i \in DOMAIN files' |-> <<"Pending">>]
    /\ distributions' = <<>>
    /\ hasErrors' = FALSE
    /\ idx' = 1
    /\ uploadedCount' = 0
    /\ failedCount' = 0
    /\ requests' = <<>>
    /\ lastResponse' = None
    /\ lastResult' = None
    /\ conflictAt' = None
    /\ forbiddenAt' = None
    /\ UNCHANGED <<machineVars, stored, reqVars, libVars>>

\* One turn of the validation loop up to `await validateDistribution(filePath)`.
PublishValidate ==
    /\ pc = "validate"
    /\ idx <= Len(files)
    /\ pc' = "validating"
    /\ inFlight' = inFlight \cup {Awaited("validate", files[idx])}
    /\ fileStates' = [fileStates EXCEPT ![idx] = Append(@, "Validating")]
    /\ UNCHANGED <<machineVars, stored, script, cmd, exitCode, runVars, answer, reqVars,
                   libVars>>

\* validateDistribution has resolved: the rest of the turn.
PublishChecked ==
    /\ pc = "validating"
    /\ LET filePath == files[idx]
           result   == validateDistribution(disk, filePath)
       IN /\ hasErrors' = batchHasErrors(hasErrors, result)
          /\ distributions' = Append(distributions,
                                     [path |-> filePath, filename |-> basename(filePath),
                                      size |-> disk[filePath], valid |-> result.valid])
          /\ inFlight' = inFlight \ {Awaited("validate", filePath)}
          /\ fileStates' = [fileStates EXCEPT
                              ![idx] = Append(@, IF result.valid THEN "Validated" ELSE "ValidationFailed")]
    /\ idx' = idx + 1
    /\ pc' = "validate"
    /\ UNCHANGED <<machineVars, stored, script, cmd, exitCode, token, repository, files,
                   uploadedCount, failedCount, requests, lastResponse, lastResult,
                   conflictAt, forbiddenAt, answer, reqVars, libVars>>

\* After the validation loop: exit on errors, stop on --dry-run, ask unless --yes.
PublishValidated ==
    /\ pc = "validate"
    /\ idx > Len(files)
    /\ IF hasErrors THEN Exit(1)
       ELSE IF cmd.dryRun THEN Exit(0)
       ELSE /\ pc' = IF cmd.yes THEN "upload" ELSE "confirm"
            /\ UNCHANGED exitCode
    /\ idx' = 1
    /\ UNCHANGED <<machineVars, stored, script, cmd, token, repository, files, distributions,
                   hasErrors, uploadedCount, failedCount, requests, lastResponse, lastResult,
                   conflictAt, forbiddenAt, answer, flowVars, reqVars, libVars>>

\* What stdin may deliver at the confirmation prompt.
Keys == { <<"y">>, <<"Y">>, <<"y", "e", "s">>, <<"n">>, <<"y", "\n">> }

\* answer !== 'y' && answer !== 'yes', with the mistake of taking every key
\* but 'n' for a yes before it
cancelsUnlessNo(typed) == typed = <<"n">>

cancels(typed) == typed # <<"y">> /\ typed # <<"y", "e", "s">>

\* The key arrives: anything but 'y' or 'yes' cancels with exit code 0.
PublishAnswer ==
    /\ pc = "confirm"
    /\ \E key \in Keys :
          /\ answer' = Some(toLowerCase(key))
          /\ IF cancels(toLowerCase(key))
             THEN Exit(0)
             ELSE pc' = "upload" /\ UNCHANGED exitCode
    /\ UNCHANGED <<machineVars, stored, script, cmd, runVars, flowVars, reqVars, libVars>>

\* The break of the upload loop, with the mistake of stopping at any failure
\* before it.
abortsBatchOnAnyFailure(result) == TRUE

\* the same with the mistake of stopping at a 409 as well
abortsBatchOnConflict(result) == result.statusCode \in {Some(403), Some(409)}

\* if (result.statusCode !== 409) { if (result.statusCode === 403) break }
abortsBatch(result) == result.statusCode # Some(409) /\ result.statusCode = Some(403)

\* The rest of one turn of the upload loop once uploadToRepository has
\* resolved, and Step 6 when the loop ends with it.
PublishSettle(response, result) ==
    LET uploaded == IF result.success THEN uploadedCount + 1 ELSE uploadedCount
        failed   == IF result.success THEN failedCount ELSE failedCount + 1
        broke    == ~result.success /\ abortsBatch(result)
        status(n) == response # None /\ response[1].kind = "http" /\ response[1].status = n
    IN /\ lastResponse' = response
       /\ lastResult' = Some(result)
       /\ uploadedCount' = uploaded
       /\ failedCount' = failed
       /\ conflictAt' = IF conflictAt = None /\ status(409) THEN Some(Len(requests))
                        ELSE conflictAt
       /\ forbiddenAt' = IF forbiddenAt = None /\ status(403) THEN Some(Len(requests))
                         ELSE forbiddenAt
       /\ inFlight' = inFlight \ {Awaited("upload", distributions[idx].path)}
       /\ fileStates' = [fileStates EXCEPT
                            ![idx] = Append(IF Last(@) = "Uploading" THEN @
                                            ELSE Append(@, "Uploading"),
                                            IF result.success THEN "Uploaded" ELSE "UploadFailed")]
       /\ idx' = IF broke THEN idx ELSE idx + 1
       /\ IF broke \/ idx = Len(distributions)
          THEN Exit(IF failed = 0 /\ uploaded > 0 THEN 0 ELSE 1)
          ELSE pc' = "upload" /\ UNCHANGED exitCode

\* One turn of the upload loop up to fetch: uploadToRepository(dist.path, token,
\* repository) returns at once for a file that is gone.
PublishUpload ==
    /\ pc = "upload"
    /\ cmd.name = "publish"
    /\ idx <= Len(distributions)
    /\ LET dist == distributions[idx]
       IN IF ~exists(disk, dist.path)
          THEN /\ requests' = requests
               /\ PublishSettle(None, fileNotFound(dist.path))
          ELSE /\ requests' = Append(requests,
                     uploadToRepositoryRequest("publish", dist.path, token[1], repository))
               /\ pc' = "uploading"
               /\ inFlight' = inFlight \cup {Awaited("upload", dist.path)}
               /\ fileStates' = [fileStates EXCEPT ![idx] = Append(@, "Uploading")]
               /\ UNCHANGED <<exitCode, idx, uploadedCount, failedCount, lastResponse,
                              lastResult, conflictAt, forbiddenAt>>
    /\ UNCHANGED <<machineVars, stored, script, cmd, token, repository, files, distributions,
                   hasErrors, answer, reqVars, libVars>>

\* fetch settles for the file of this turn.
PublishResponse ==
    /\ pc = "uploading"
    /\ cmd.name = "publish"
    /\ \E response \in UploadResponses :
          PublishSettle(Some(response),
                        uploadToRepositoryResult(distributions[idx].path, repository, response))
    /\ UNCHANGED <<machineVars, stored, script, cmd, token, repository, files, distributions,
                   hasErrors, requests, answer, reqVars, libVars>>

\* uploadAction up to fetch: the token, the file, the repository, the validation.
UploadStart ==
    /\ Start("upload")
    /\ LET c          == Head(script)
           tok        == getApiToken(configFiles, env.PYPI_API_TOKEN, c.token)
           validation == validateDistribution(disk, c.path)
       IN /\ token' = tok
          /\ IF ~Truthy(tok) \/ ~exists(disk, c.path)
             THEN /\ Exit(1)
                  /\ repository' = <<>>
                  /\ requests' = <<>>
             ELSE /\ repository' = repositoryOption(c.repository)
                  /\ IF ~validation.valid
                     THEN Exit(1) /\ requests' = <<>>
                     ELSE /\ requests' = <<uploadToRepositoryRequest("upload", c.path, tok[1],
                                                   repositoryOption(c.repository))>>
                          /\ pc' = "uploading"
                          /\ exitCode' = None
    /\ files' = <<>>
    /\ distributions' = <<>>
    /\ hasErrors' = FALSE
    /\ idx' = 1
    /\ uploadedCount' = 0
    /\ failedCount' = 0
    /\ lastResponse' = None
    /\ lastResult' = None
    /\ conflictAt' = None
    /\ forbiddenAt' = None
    /\ answer' = None
    /\ inFlight' = {}
    /\ fileStates' = <<>>
    /\ UNCHANGED <<machineVars, stored, reqVars, libVars>>

\* fetch settles: exit code 1 unless the result is a success.
UploadResponse ==
    /\ pc = "uploading"
    /\ cmd.name = "upload"
    /\ \E response \in UploadResponses :
          LET result == uploadToRepositoryResult(cmd.path, repository, response)
          IN /\ lastResponse' = Some(response)
             /\ lastResult' = Some(result)
             /\ Exit(IF result.success THEN 0 ELSE 1)
    /\ UNCHANGED <<machineVars, stored, script, cmd, token, repository, files, distributions,
                   hasErrors, idx, uploadedCount, failedCount, requests, conflictAt,
                   forbiddenAt, answer, flowVars, reqVars, libVars>>

\* new PyPIUploader(uploadUrl).upload(filePath, token) up to fetch.
UploaderStart ==
    /\ Start("PyPIUploader.upload")
    /\ LET c           == Head(script)
           uploaderUrl == OrElse(c.repository, {}, UrlPyPI)
       IN /\ token' = c.token
          /\ repository' = uploaderUrl
          /\ IF ~exists(disk, c.path)
             THEN /\ requests' = <<>>
                  /\ lastResult' = Some(fileNotFound(c.path))
                  /\ pc' = "shell"
             ELSE /\ requests' = <<PyPIUploaderRequest("PyPIUploader.upload", uploaderUrl,
                                                       c.path, c.token[1])>>
                  /\ lastResult' = None
                  /\ pc' = "uploading"
    /\ exitCode' = None
    /\ files' = <<>>
    /\ distributions' = <<>>
    /\ hasErrors' = FALSE
    /\ idx' = 1
    /\ uploadedCount' = 0
    /\ failedCount' = 0
    /\ lastResponse' = None
    /\ conflictAt' = None
    /\ forbiddenAt' = None
    /\ answer' = None
    /\ inFlight' = {}
    /\ fileStates' = <<>>
    /\ UNCHANGED <<machineVars, stored, reqVars, libVars>>

\* fetch settles for the uploader.
UploaderResponse ==
    /\ pc = "uploading"
    /\ cmd.name = "PyPIUploader.upload"
    /\ \E response \in UploadResponses :
          /\ lastResponse' = Some(response)
          /\ lastResult' = Some(PyPIUploaderResult(cmd.path, response))
    /\ pc' = "shell"
    /\ UNCHANGED <<machineVars, stored, script, cmd, exitCode, token, repository, files,
                   distributions, hasErrors, idx, uploadedCount, failedCount, requests,
                   conflictAt, forbiddenAt, answer, flowVars, reqVars, libVars>>

CliNext ==
    \/ ConfigSet
    \/ ConfigInit
    \/ PublishStart
    \/ PublishValidate
    \/ PublishChecked
    \/ PublishValidated
    \/ PublishAnswer
    \/ PublishUpload
    \/ PublishResponse
    \/ UploadStart
    \/ UploadResponse
    \/ UploaderStart
    \/ UploaderResponse

SpecCli == CliInit /\ [][CliNext]_vars

\* ---------------------------------------------------- claims on the commands

IsCommand == cmd.name \in {"publish", "upload"}

Invalid(filePath) == ~validateDistribution(disk, filePath).valid

\* C1: no upload request of the publish or the upload command is for a file
\* whose validateDistribution result is invalid; and when any file of a publish
\* batch is invalid, no request is sent for any file of the batch: the command
\* is still validating or has ended, and it ends with exit code 1.
C1_ValidationGatesUploads ==
    /\ \A i \in DOMAIN requests :
          requests[i].cmd \in {"publish", "upload"} => ~Invalid(requests[i].file)
    /\ (cmd.name = "publish" /\ \E i \in DOMAIN files : Invalid(files[i]))
          => /\ requests = <<>>
             /\ pc \in {"validate", "validating", "shell"}
             /\ pc = "shell" => exitCode = Some(1)
    /\ (cmd.name = "upload" /\ Invalid(cmd.path))
          => requests = <<>> /\ pc = "shell" /\ exitCode = Some(1)

C1_Witness ==
    /\ cmd.name = "publish"
    /\ Len(files) = 3
    /\ ~Invalid(files[1])
    /\ Invalid(files[3])
    /\ Len(distributions) = 3
    /\ pc = "shell"
    /\ exitCode = Some(1)
    /\ requests = <<>>

\* C2: in the upload loop of publish, once a 403 has come no further request is
\* sent (the requests stay the ones sent when it came) and the command has
\* ended with exit code 1; a 409 with no 403 does not end the loop: the command
\* goes on to the next file, and when it has ended every file of the batch has
\* been requested.
C2_ConflictContinuesForbiddenAborts ==
    cmd.name = "publish" =>
      /\ forbiddenAt # None
            => Len(requests) = forbiddenAt[1] /\ pc = "shell" /\ exitCode = Some(1)
      /\ (conflictAt # None /\ forbiddenAt = None)
            => /\ pc \in {"upload", "uploading", "shell"}
               /\ pc = "upload" => idx = Len(requests) + 1 /\ idx <= Len(distributions)
               /\ pc = "shell" => Len(requests) = Len(distributions)

C2_Witness ==
    /\ cmd.name = "publish"
    /\ Len(distributions) = 3
    /\ conflictAt = Some(1)
    /\ forbiddenAt = Some(2)
    /\ Len(requests) = 2
    /\ pc = "shell"

\* Whether a message holds a phrase, for the fixed texts of the uploaders.
Mentions(message, phrase) ==
    <<message.tmpl, phrase>> \in
        { <<"Authentication failed. Check your API token.", "Authentication failed">>,
          <<"File already exists on repository.", "already exists">> }

IsProjectUrl(url) ==
    \/ startsWith(url, UrlPyPIWeb \o ProjectSegment)
    \/ startsWith(url, UrlTestPyPIWeb \o ProjectSegment)

\* C6: whichever uploader made it, the UploadResult of an HTTP response is: for
\* a 2xx, success with a project URL; for a 403, a failure with statusCode 403
\* whose message mentions 'Authentication failed'; for a 409, a failure with
\* statusCode 409 whose message mentions 'already exists'; for any other
\* status, a failure with that status code whose message is the body text or,
\* for an empty body, 'Upload failed with status N'.
C6_UploadResponseClassification ==
    (lastResponse # None /\ lastResponse[1].kind = "http" /\ lastResult # None)
      => LET response == lastResponse[1]
             result   == lastResult[1]
         IN /\ responseOk(response)
                  => result.success /\ result.url # None /\ IsProjectUrl(result.url[1])
            /\ response.status = 403
                  => /\ ~result.success
                     /\ result.statusCode = Some(403)
                     /\ Mentions(result.message, "Authentication failed")
            /\ response.status = 409
                  => /\ ~result.success
                     /\ result.statusCode = Some(409)
                     /\ Mentions(result.message, "already exists")
            /\ (~responseOk(response) /\ response.status \notin {403, 409})
                  => /\ ~result.success
                     /\ result.statusCode = Some(response.status)
                     /\ result.message =
                           (IF response.body # "" THEN Text(response.body)
                            ELSE Msg("Upload failed with status {num}",
                                     Some(response.status), None))

\* C7: every upload request carries the header Authorization: Basic
\* base64(__token__:<token>), the token being the one the run uploads with.
C7_BasicAuthentication ==
    \A i \in DOMAIN requests :
        requests[i].authorization = BasicPrefix \o btoa(TokenUser \o token[1])

\* C8: when a token has been stored by config set apiToken or config init, a
\* later publish or upload run given neither --token nor PYPI_API_TOKEN
\* resolves its token to the stored one.
C8_StoredTokenIsUsed ==
    (IsCommand /\ ~cmd.dryRun /\ cmd.token = None /\ env.PYPI_API_TOKEN = None
       /\ stored # None)
      => token = stored

\* C9: the token a publish or upload run resolves is the --token value when one
\* is given (a non-empty string), otherwise the PYPI_API_TOKEN value when it is
\* set (non-empty), otherwise the apiToken of the config file getApiToken reads,
\* undefined when that file is missing, does not parse or holds none; so a
\* token from the file is used only when flag and environment give none.
C9_TokenPrecedence ==
    (IsCommand /\ ~cmd.dryRun)
      => LET flag     == cmd.token
             envToken == env.PYPI_API_TOKEN
             file     == configFiles[".pypi.json"]
             inFile   == IF file # None /\ file[1].json /\ "apiToken" \in DOMAIN file[1].config
                         THEN Some(file[1].config["apiToken"]) ELSE None
         IN /\ Truthy(flag) => token = flag
            /\ (~Truthy(flag) /\ Truthy(envToken)) => token = envToken
            /\ (~Truthy(flag) /\ ~Truthy(envToken)) => token = inFile
            /\ (token # None /\ token # flag /\ token # envToken)
                  => ~Truthy(flag) /\ ~Truthy(envToken) /\ token = inFile

C9_Witness ==
    /\ cmd.name = "publish"
    /\ cmd.token = Some(TokFlag)
    /\ env.PYPI_API_TOKEN = Some(TokEnv)
    /\ configFiles[".pypi.json"] = ConfigFile([apiToken |-> TokProject])
    /\ token = Some(TokFlag)
    /\ requests # <<>>

\* C10: the URL every request of publish and upload is posted to is that of the
\* --repository value when one is given, otherwise of PYPI_REPOSITORY, otherwise
\* of the config file's repository, otherwise the default.
C10_RepositoryPrecedence ==
    (IsCommand /\ loadConfigFile(configFiles) # None)
      => \A i \in DOMAIN requests :
            requests[i].url =
               uploadUrl(IF Truthy(cmd.repository) THEN cmd.repository[1]
                         ELSE mergedRepository(loadConfigFile(configFiles)[1],
                                               env.PYPI_REPOSITORY))

\* ------------------------------------------------------------- config set

\* A value that is a number: decimal digits and nothing else.
IsNumeric(value) == value # <<>> /\ \A i \in DOMAIN value : value[i] \in Digits

\* The value config set is to store for the key.
NewValue(key, value) ==
    IF key = "colorOutput" THEN toLowerCase(value) = <<"t", "r", "u", "e">>
    ELSE IF key \in {"timeout", "retries"} THEN DecimalValue(value, Len(value))
    ELSE value

\* The keys and values ~/.pypi/config.json holds ({} when it is missing or does
\* not parse).
StoredConfig(configs) ==
    IF configs["~/.pypi/config.json"] = None \/ ~configs["~/.pypi/config.json"][1].json
    THEN EmptyConfig
    ELSE configs["~/.pypi/config.json"][1].config

\* config set <key> <value> is the command that runs next.
RunsConfigSet == pc = "shell" /\ script # <<>> /\ Head(script).name = "config set"

\* What C28 says of the step config set takes, given its key and value.
ConfigSetStep(key, value) ==
    IF key \in validKeys /\ (key \in {"timeout", "retries"} => IsNumeric(value))
    THEN /\ exitCode' = Some(0)
         /\ DOMAIN StoredConfig(configFiles') = DOMAIN StoredConfig(configFiles) \cup {key}
         /\ StoredConfig(configFiles')[key] = NewValue(key, value)
         /\ \A k \in DOMAIN StoredConfig(configFiles) \ {key} :
               StoredConfig(configFiles')[k] = StoredConfig(configFiles)[k]
         /\ \A f \in DOMAIN configFiles \ {"~/.pypi/config.json"} :
               configFiles'[f] = configFiles[f]
    ELSE /\ exitCode' # Some(0)
         /\ configFiles' = configFiles

\* C28: config set with a valid key rewrites ~/.pypi/config.json so that it
\* holds the new value for the key and the previous value of every other key,
\* and changes no other file; with an unknown key, or with a value for timeout
\* or retries that is no number, it exits non-zero and leaves every file as it
\* was.
C28_ConfigSetChangesOneKey ==
    [][RunsConfigSet => ConfigSetStep(Head(script).key, Head(script).value)]_vars

\* ---------------------------------------------------- the publish workflow

IsPublish == cmd.name = "publish"

\* The command that ran last has ended.
Finished == pc = "shell" /\ exitCode # None

InFlightUploads == {o \in inFlight : o.op = "upload"}

\* C22: a publish batch is processed strictly sequentially: at most one
\* validation or upload is awaited at any moment; files are validated and
\* uploaded in the order of `files`, which is sorted; the validation or upload
\* in flight is that of the next file in this order, and every upload started
\* before it has been counted as uploaded or failed.
C22_SequentialBatch ==
    IsPublish
      => /\ Cardinality(inFlight) <= 1
         /\ \A i, j \in DOMAIN files : i < j => StrLess(files[i], files[j])
         /\ \A i \in DOMAIN distributions : distributions[i].path = files[i]
         /\ \A i \in DOMAIN requests : requests[i].file = files[i]
         /\ \A o \in inFlight :
               /\ o.op = "validate" => o.file = files[Len(distributions) + 1]
               /\ o.op = "upload" => o.file = files[Len(requests)]
         /\ uploadedCount + failedCount = Len(requests) - Cardinality(InFlightUploads)

\* the upload of the second of three files is in flight
C22_Witness ==
    /\ IsPublish
    /\ Len(files) = 3
    /\ Len(requests) = 2
    /\ inFlight = {Awaited("upload", files[2])}
    /\ uploadedCount + failedCount = 1

\* C23: a publish --dry-run never sends an upload request and never reads the
\* API token; it ends with exit code 0 when there are files and all are valid,
\* and with exit code 1 otherwise, whether a token is available or not.
C23_DryRunSendsNothing ==
    (IsPublish /\ cmd.dryRun)
      => /\ requests = <<>>
         /\ inFlight \subseteq {Awaited("validate", f) : f \in DOMAIN disk}
         /\ token = None
         /\ pc \in {"shell", "validate", "validating"}
         /\ Finished
               => exitCode = Some(IF files # <<>> /\ \A i \in DOMAIN files : ~Invalid(files[i])
                                  THEN 0 ELSE 1)

\* a dry run has ended well although no API token is to be found
C23_Witness ==
    /\ IsPublish
    /\ cmd.dryRun
    /\ ~Truthy(getApiToken(configFiles, env.PYPI_API_TOKEN, cmd.token))
    /\ Finished
    /\ exitCode = Some(0)
    /\ Len(distributions) > 0

Yes == {Some(<<"y">>), Some(<<"y", "e", "s">>)}

\* C24: without --yes, publish has sent an upload request only if the prompt
\* was answered 'y' or 'yes' (in any case); after any other answer the run has
\* ended with exit code 0 and without a request; with --yes there is no prompt.
C24_ConfirmationGatesUploads ==
    IsPublish
      => /\ (~cmd.yes /\ (requests # <<>> \/ pc \in {"upload", "uploading"})) => answer \in Yes
         /\ (answer # None /\ answer \notin Yes)
               => requests = <<>> /\ Finished /\ exitCode = Some(0)
         /\ cmd.yes => answer = None /\ pc # "confirm"

\* 'Y' was typed and an upload request has been sent
C24_Witness ==
    /\ IsPublish
    /\ ~cmd.yes
    /\ answer = Some(<<"y">>)
    /\ requests # <<>>

\* The steps of the per-file state machine, and the places a file ends at:
\* Uploaded is Succeeded, ValidationFailed and UploadFailed are Failed.
WorkflowSteps ==
    {<<"Pending", "Validating">>, <<"Validating", "ValidationFailed">>,
     <<"Validating", "Validated">>, <<"Validated", "Uploading">>,
     <<"Uploading", "Uploaded">>, <<"Uploading", "UploadFailed">>}

Terminal == {"ValidationFailed", "Uploaded", "UploadFailed"}

FollowsWorkflow(states) ==
    /\ states[1] = "Pending"
    /\ \A k \in 1..(Len(states) - 1) : <<states[k], states[k + 1]>> \in WorkflowSteps

\* The run is no dry run and has got past the confirmation step.
Confirmed ==
    /\ ~cmd.dryRun
    /\ Truthy(token)
    /\ files # <<>>
    /\ Len(distributions) = Len(files)
    /\ ~hasErrors
    /\ cmd.yes \/ answer \in Yes

Forbidden == lastResult # None /\ lastResult[1].statusCode = Some(403)

\* C26 as stated: every file of a publish batch goes through the workflow step
\* by step, and when a confirmed publish that is no dry run has ended, every
\* file is at a terminal place and uploadedCount + failedCount is the number of
\* files.
C26_FilesEndTerminal ==
    IsPublish
      => /\ DOMAIN fileStates = DOMAIN files
         /\ \A i \in DOMAIN fileStates : FollowsWorkflow(fileStates[i])
         /\ (Finished /\ Confirmed)
               => /\ \A i \in DOMAIN fileStates : Last(fileStates[i]) \in Terminal
                  /\ uploadedCount + failedCount = Len(files)

\* C26 as amended: the same, for a confirmed publish that has ended without a
\* 403 response to an upload.
C26_FilesEndTerminalUnlessForbidden ==
    IsPublish
      => /\ DOMAIN fileStates = DOMAIN files
         /\ \A i \in DOMAIN fileStates : FollowsWorkflow(fileStates[i])
         /\ (Finished /\ Confirmed /\ ~Forbidden)
               => /\ \A i \in DOMAIN fileStates : Last(fileStates[i]) \in Terminal
                  /\ uploadedCount + failedCount = Len(files)

\* three files, the second answered 409: all three are at a terminal place
C26_Witness ==
    /\ IsPublish
    /\ Finished
    /\ Confirmed
    /\ Len(files) = 3
    /\ conflictAt = Some(2)
    /\ ~Forbidden
    /\ uploadedCount = 2
    /\ failedCount = 1

\* ========================================================= library calls

\* What a call of a library function ends with.
Returned(value) == [kind |-> "returned", value |-> value]

Thrown(error) == [kind |-> "thrown", error |-> error]

\* A call that has not ended yet.
Calls(fn) == libCall.fn = fn /\ libResult = None

\* The call ends with the outcome o; nothing else changes.
Ends(o) == libResult' = Some(o) /\ UNCHANGED <<libCall, cacheVars, reqVars, cliVars>>

\* A call of fn that has returned.
HasReturned(fn) ==
    libCall.fn = fn /\ libResult # None /\ libResult[1].kind = "returned"

\* -------------------------------------------------------------- maskApiToken

Ellipsis == <<".", ".", ".">>

\* maskApiToken
maskApiToken(tok) ==
    IF Len(tok) <= 8 THEN tok
    ELSE slice(tok, 0, 4) \o Ellipsis \o slice(tok, Len(tok) - 4, Len(tok))

\* The tokens masked: of every length from 0 to 10, and two of one length and
\* of the same first and last four characters.
Tokens ==
    {SubSeq(<<"p", "y", "p", "i", "-", "y", "z", "1", "2", "3">>, 1, n) : n \in 0..10} \cup {<<"p", "y", "p", "i", "X", "y", "z", "1", "2", "3">>}

MaskApiTokenCalls == {[fn |-> "maskApiToken", token |-> t] : t \in Tokens}

\* config get, config set apiToken and token list print maskApiToken(token).
MaskApiToken ==
    /\ Calls("maskApiToken")
    /\ Ends(Returned(maskApiToken(libCall.token)))

\* The first and last four characters of a token (all of a shorter one).
Shown(tok) ==
    <<slice(tok, 0, Min(4, Len(tok))), slice(tok, Len(tok) - Min(4, Len(tok)), Len(tok))>>

\* C11: what is printed in the place of a token differs from the token, and it
\* is the same for every token of the same first four and last four
\* characters: nothing but these is revealed.
C11_TokenNeverShownInFull ==
    HasReturned("maskApiToken")
      => /\ libResult[1].value # libCall.token
         /\ \A other \in Tokens :
               Shown(other) = Shown(libCall.token)
                  => maskApiToken(other) = libResult[1].value

\* ------------------------------------------------------ validateDistribution

\* validateDistribution of upload.ts when the catch block is entered: the file
\* system call that throws is exists() ("exists") or the first read of file.size
\* ("size"); errors holds what was pushed before, and then the message.
validateDistributionCaught(filePath, at, message) ==
    [valid    |-> FALSE,
     errors   |-> (IF at = "size"
                   THEN When(~validateDistributionPath(filePath),
                             Text("Invalid file extension. Expected .tar.gz, .whl, .egg, or .zip"))
                   ELSE <<>>) \o <<Text(message)>>,
     warnings |-> <<>>]

\* PyPIUploader.validateDistribution: errors of a file that exists
uploaderValidationErrors(filePath, size) ==
    When(~(\E i \in DOMAIN validExtensions : endsWith(filePath, validExtensions[i])),
         Text("Invalid file extension. Expected one of: .tar.gz, .whl, .egg, .zip"))
    \o When(size > maxSize,
            Msg("File size ({num} bytes) exceeds PyPI limit of 100MB", Some(size), None))

\* PyPIUploader.validateDistribution
uploaderValidateDistribution(fs, filePath) ==
    IF ~exists(fs, filePath)
    THEN [valid |-> FALSE, errors |-> <<Msg("File not found: {str}", None, Some(filePath))>>,
          warnings |-> <<>>]
    ELSE ValidationResult(uploaderValidationErrors(filePath, fs[filePath]),
                          When(fs[filePath] < smallSize,
                               Msg("File size ({num} bytes) is very small",
                                   Some(fs[filePath]), None)))

\* PyPIUploader.validateDistribution when its catch block is entered.
uploaderValidateDistributionCaught(filePath, at, message) ==
    [valid    |-> FALSE,
     errors   |-> (IF at = "size"
                   THEN When(~(\E i \in DOMAIN validExtensions :
                                  endsWith(filePath, validExtensions[i])),
                             Text("Invalid file extension. Expected one of: .tar.gz, .whl, .egg, .zip"))
                   ELSE <<>>) \o <<Text(message)>>,
     warnings |-> <<>>]

\* The paths validated: well-formed distributions, and paths failing one check
\* or several.
PathSeveral == <<"d", "/", "_", "a", "-", "x", " ", "y", ".", "t", "a", "r", ".", "g", "z">>

PathNoExtension == <<"d", "/", "a", " ", "b", ".", "t", "x", "t">>

ValidatedPaths ==
    {Sdist, Wheel, Zip, Readme, BadVersion, PathSeveral, PathNoExtension,
     <<"d", "/", "-", "a", "-", "1", ".", "0", ".", "t", "a", "r", ".", "g", "z">>,
     <<"d", "/", ".", "e", "n", "v", "-", "1", ".", "0", ".", "t", "a", "r", ".", "g", "z">>,
     <<"d", "/", "s", "e", "c", "r", "e", "t", "-", "1", ".", "0", ".", "t", "a", "r", ".", "g", "z">>,
     <<"d", "/", "a", ".", "w", "h", "l">>,
     <<"d", "/", "-", "1", ".", "0", ".", "t", "a", "r", ".", "g", "z">>,
     <<"d", "/", "a", "-", ".", "t", "a", "r", ".", "g", "z">>}

\* The sizes validated: around both thresholds, and 120 MB.
ValidatedSizes == {0, smallSize - 1, smallSize, 2048, maxSize, maxSize + 1, 125829120}

\* A file system holding at most the file validated.
NoFiles == [p \in {} |-> 0]

FileSystems(path) == {NoFiles} \cup {[p \in {path} |-> size] : size \in ValidatedSizes}

\* Where the file system throws during the call: nowhere, in exists(), or at the
\* first read of file.size.
Faults == {"none", "exists", "size"}

FaultMessage == "EACCES: permission denied"

CallsOn(path) ==
    {[fn |-> fn, path |-> path, fs |-> fs, fault |-> fault] :
        fn \in {"validateDistribution", "PyPIUploader.validateDistribution"},
        fs \in FileSystems(path), fault \in Faults}

ValidateDistributionCalls == UNION {CallsOn(path) : path \in ValidatedPaths}

\* Whether the call reaches the file system call that throws: exists() is always
\* called, file.size is read only for a file that is there.
Caught ==
    \/ libCall.fault = "exists"
    \/ libCall.fault = "size" /\ exists(libCall.fs, libCall.path)

\* validateDistribution: it returns the result of its checks or, when a call of
\* the file system throws, what its catch block makes of the error.
ValidateDistribution ==
    /\ Calls("validateDistribution")
    /\ Ends(Returned(IF Caught
                     THEN validateDistributionCaught(libCall.path, libCall.fault, FaultMessage)
                     ELSE validateDistribution(libCall.fs, libCall.path)))

UploaderValidateDistribution ==
    /\ Calls("PyPIUploader.validateDistribution")
    /\ Ends(Returned(IF Caught
                     THEN uploaderValidateDistributionCaught(libCall.path, libCall.fault,
                                                             FaultMessage)
                     ELSE uploaderValidateDistribution(libCall.fs, libCall.path)))

\* A validateDistribution call of either class has returned.
Validated ==
    HasReturned("validateDistribution") \/ HasReturned("PyPIUploader.validateDistribution")

\* C12: every ValidationResult either validateDistribution returns, on the
\* missing-file path, after its checks and from its catch block, has valid
\* exactly when errors is empty, whatever warnings holds.
C12_ValidIffNoErrors ==
    Validated => (libResult[1].value.valid <=> libResult[1].value.errors = <<>>)

C12_Witness ==
    /\ HasReturned("validateDistribution")
    /\ libResult[1].value.valid
    /\ Len(libResult[1].value.warnings) >= 2

\* A validateDistribution of upload.ts that found the file and ran its checks
\* to the end.
Checked ==
    /\ HasReturned("validateDistribution")
    /\ exists(libCall.fs, libCall.path)
    /\ ~Caught

\* C13: for a path that does not exist, either validateDistribution returns
\* exactly {valid: false, errors: ['File not found: <path>'], warnings: []},
\* whatever the extension and the file name of the path.
C13_MissingFileShortCircuits ==
    (Validated /\ ~exists(libCall.fs, libCall.path) /\ ~Caught)
      => libResult[1].value =
            [valid    |-> FALSE,
             errors   |-> <<Msg("File not found: {str}", None, Some(libCall.path))>>,
             warnings |-> <<>>]

C13_Witness ==
    /\ HasReturned("validateDistribution")
    /\ libCall.path = PathNoExtension
    /\ libCall.fs = NoFiles
    /\ libCall.fault = "none"
    /\ Len(libResult[1].value.errors) = 1

\* The place of an error in the order of the checks: extension, size limit,
\* package name, version, space in the file name (0: none of these).
ErrorRank(msg) ==
    CASE msg.tmpl = "Invalid file extension. Expected .tar.gz, .whl, .egg, or .zip" -> 1
      [] msg.tmpl = "File size ({num}) exceeds PyPI limit of 100MB" -> 2
      [] msg.tmpl = "Invalid package name: {str}" -> 3
      [] msg.tmpl = "Invalid version (not PEP 440 compliant): {str}" -> 4
      [] msg.tmpl = "Filename contains spaces" -> 5
      [] OTHER -> 0

\* The checks, by their place, that a file of this path and size violates.
ViolatedChecks(path, size) ==
    {k \in 1..5 :
        \/ k = 1 /\ ~validateDistributionPath(path)
        \/ k = 2 /\ size > 104857600
        \/ k = 3 /\ Truthy(extractMetadata(path).name)
                 /\ ~validatePackageName(extractMetadata(path).name[1])
        \/ k = 4 /\ Truthy(extractMetadata(path).version)
                 /\ ~validateVersion(extractMetadata(path).version[1])
        \/ k = 5 /\ " " \in {basename(path)[i] : i \in DOMAIN basename(path)}}

\* C14: for a file that exists the errors are one for each violated check and
\* no other, in the order extension, size limit, package name, version, space
\* in the file name.
C14_AllChecksInOrder ==
    Checked
      => LET errors == libResult[1].value.errors
         IN /\ {ErrorRank(errors[i]) : i \in DOMAIN errors}
                  = ViolatedChecks(libCall.path, libCall.fs[libCall.path])
            /\ \A i, j \in DOMAIN errors :
                  i < j => ErrorRank(errors[i]) < ErrorRank(errors[j])

C14_Witness ==
    /\ Checked
    /\ libCall.path = PathSeveral
    /\ Len(libResult[1].value.errors) = 4

\* Whether a list of messages holds one of the template.
Holds(messages, tmpl) == \E i \in DOMAIN messages : messages[i].tmpl = tmpl

\* C15: a file gets the size-limit error, and is then invalid, exactly when it
\* is larger than 104857600 bytes; it gets the 'very small' warning exactly
\* when it is smaller than 1024 bytes, and with that warning and no violated
\* check it is valid.
C15_SizeThresholds ==
    Checked
      => LET size     == libCall.fs[libCall.path]
             value    == libResult[1].value
         IN /\ Holds(value.errors, "File size ({num}) exceeds PyPI limit of 100MB")
                  <=> size > 104857600
            /\ size > 104857600 => ~value.valid
            /\ Holds(value.warnings, "File size ({num}) is very small") <=> size < 1024
            /\ (size < 1024 /\ ViolatedChecks(libCall.path, size) = {}) => value.valid

C15_Witness ==
    /\ Checked
    /\ libCall.path = Sdist
    /\ libCall.fs[Sdist] = 104857600
    /\ libResult[1].value.valid

\* C16: when the file name yields a package name, the file gets the name error
\* exactly when validatePackageName rejects the name; when it yields none, the
\* file gets the 'could not extract' warning and no name error, and is valid
\* when no other check is violated.  The same for the version and
\* validateVersion.
C16_MetadataChecks ==
    Checked
      => LET metadata == extractMetadata(libCall.path)
             value    == libResult[1].value
             violated == ViolatedChecks(libCall.path, libCall.fs[libCall.path])
         IN /\ Truthy(metadata.name)
                  => (Holds(value.errors, "Invalid package name: {str}")
                         <=> ~validatePackageName(metadata.name[1]))
            /\ ~Truthy(metadata.name)
                  => /\ ~Holds(value.errors, "Invalid package name: {str}")
                     /\ Holds(value.warnings, "Could not extract package name from file")
                     /\ violated \subseteq {3} => value.valid
            /\ Truthy(metadata.version)
                  => (Holds(value.errors, "Invalid version (not PEP 440 compliant): {str}")
                         <=> ~validateVersion(metadata.version[1]))
            /\ ~Truthy(metadata.version)
                  => /\ ~Holds(value.errors, "Invalid version (not PEP 440 compliant): {str}")
                     /\ Holds(value.warnings, "Could not extract version from file")
                     /\ violated \subseteq {4} => value.valid

C16_Witness ==
    /\ Checked
    /\ ~Truthy(extractMetadata(libCall.path).name)
    /\ Truthy(extractMetadata(libCall.path).version)
    /\ libResult[1].value.valid
    /\ Holds(libResult[1].value.warnings, "Could not extract package name from file")

\* --------------------------------------------------- filename metadata

\* The names and versions sdist file names are made of.
SdistNames == {<<"a">>,
     <<"m", "y", "_", "p", "k", "g">>,
     <<"A", ".", "b">>,
     <<"x", ".", "t", "a", "r", ".", "g", "z">>,
     <<>>}

SdistVersions == {<<"1", ".", "0">>,
     <<"2">>,
     <<"1", ".", "0", "-", "1">>,
     <<"1", ".", "0", ".", "p", "o", "s", "t", "1">>,
     <<>>}

\* The file name '{name}-{version}.tar.gz'
SdistFilename(name, version) == name \o <<"-">> \o version \o ExtTarGz

ExtractSdistCalls ==
    {[fn |-> "extractMetadataFromSdist", name |-> name, version |-> version,
      path |-> dir \o SdistFilename(name, version)] :
        name \in SdistNames, version \in SdistVersions, dir \in {<<>>, <<"d", "/">>}}

\* extractMetadataFromSdist(filePath); nothing in its try block throws for a
\* string.
ExtractMetadataFromSdist ==
    /\ Calls("extractMetadataFromSdist")
    /\ Ends(Returned(extractMetadataFromSdist(libCall.path)))

HasDash(str) == "-" \in {str[i] : i \in DOMAIN str}

WheelFilenames ==
    {<<"a", "-", "1", ".", "0", "-", "p", "y", "3", "-", "n", "o", "n", "e", "-", "a", "n", "y", ".", "w", "h", "l">>,
     <<"m", "y", "_", "p", "k", "g", "-", "1", ".", "0", "-", "1", "-", "p", "y", "3", "-", "n", "o", "n", "e", "-", "a", "n", "y", ".", "w", "h", "l">>,
     <<"a", "-", "1", ".", "0", "-", "p", "y", "3", "-", "n", "o", "n", "e", ".", "w", "h", "l">>,
     <<"a", ".", "w", "h", "l">>,
     <<"a", ".", "w", "h", "l", "-", "1", ".", "0", "-", "p", "y", "3", "-", "n", "o", "n", "e", "-", "a", "n", "y", ".", "w", "h", "l">>,
     <<"a", "-", "1", ".", "0", "-", "p", "y", "3", "-", "n", "o", "n", "e", "-", "a", "n", "y", ".", "w", "h", "l", ".", "w", "h", "l">>}

ExtractWheelCalls ==
    {[fn |-> "extractMetadataFromWheel", filename |-> filename, path |-> dir \o filename] :
        filename \in WheelFilenames, dir \in {<<>>, <<"d", "/">>}}

\* extractMetadataFromWheel(filePath); nothing in its try block throws for a
\* string.
ExtractMetadataFromWheel ==
    /\ Calls("extractMetadataFromWheel")
    /\ Ends(Returned(extractMetadataFromWheel(libCall.path)))

\* The dash-separated segments of a file name without its last four characters.
SegmentsOf(filename) == split(SubSeq(filename, 1, Len(filename) - 4), "-")

\* C18: for a file name ending in .whl, extractMetadataFromWheel returns (it
\* does not throw), with 5 or more dash-separated segments before the .whl
\* suffix, segment 0 with '_' replaced by '-' as name and segment 1 as version,
\* and with fewer the empty metadata.
C18_WheelExtraction ==
    (libCall.fn = "extractMetadataFromWheel" /\ libResult # None)
      => /\ libResult[1].kind = "returned"
         /\ libResult[1].value =
               (IF Len(SegmentsOf(libCall.filename)) >= 5
                THEN [name    |-> Some(replaceAll(SegmentsOf(libCall.filename)[1], "_", "-")),
                      version |-> Some(SegmentsOf(libCall.filename)[2])]
                ELSE [name |-> None, version |-> None])

\* ---------------------------------------------- validators, on any value

\* A JavaScript value handed to a function that declares a string parameter.
JsNull == [type |-> "null"]

JsUndefined == [type |-> "undefined"]

JsNumber(n) == [type |-> "number", val |-> n]

JsString(str) == [type |-> "string", val |-> str]

\* !value
Falsy(v) ==
    \/ v.type \in {"null", "undefined"}
    \/ v.type = "number" /\ v.val = 0
    \/ v.type = "string" /\ v.val = <<>>

\* !value || typeof value !== 'string': the guard the boolean validators open with
Refused(v) == Falsy(v) \/ v.type # "string"

\* A literal read from p, case-sensitively.
ExactEnds(str, p, literal) == IF OccursAt(str, literal, p) THEN {p + Len(literal)} ELSE {}

\* [chars]{least,most} read from p
RunEnds(str, p, chars, least, most) ==
    {q \in (p + least)..Min(p + most, Len(str) + 1) : \A k \in p..(q - 1) : str[k] \in chars}

\* The characters of the local part of EMAIL_REGEX.
EmailLocalChars ==
    Alnum \cup {".", "!", "#", "$", "%", "&", "'", "*", "+", "/", "=", "?", "^", "_",
                "GRAVE", "{", "|", "}", "~", "-"}

\* [a-zA-Z0-9](?:[a-zA-Z0-9-]{0,61}[a-zA-Z0-9])?
IsDomainLabel(label) ==
    /\ Len(label) >= 1
    /\ Len(label) <= 63
    /\ label[1] \in Alnum
    /\ label[Len(label)] \in Alnum
    /\ \A i \in DOMAIN label : label[i] \in Alnum \cup {"-"}

\* EMAIL_REGEX, on a string holding one '@' at the 0-based position at
MatchesEmail(str, at) ==
    /\ at >= 1
    /\ \A i \in 1..at : str[i] \in EmailLocalChars
    /\ \A i \in DOMAIN split(slice(str, at + 1, Len(str)), ".") :
          IsDomainLabel(split(slice(str, at + 1, Len(str)), ".")[i])

\* validateEmail after the guard and the trim
validateTrimmedEmail(trimmed, parts) ==
    IF Len(trimmed) = 0 \/ Len(trimmed) > 254 THEN FALSE
    ELSE IF ~includes(trimmed, <<"@">>) THEN FALSE
    ELSE IF Len(parts) # 2 THEN FALSE
    ELSE IF Len(parts[1]) = 0 \/ Len(parts[1]) > 64 THEN FALSE
    ELSE IF Len(parts[2]) = 0 \/ Len(parts[2]) > 253 THEN FALSE
    ELSE MatchesEmail(trimmed, Len(parts[1]))

\* validateEmail, on a string
validateEmail(email) ==
    IF email = <<>> THEN FALSE ELSE validateTrimmedEmail(trim(email), split(trim(email), "@"))

UrlHostChars == Alnum \cup {"-", "@", ":", "%", ".", "_", "+", "~", "#", "="}

UrlSuffixChars == Alnum \cup {"-", "(", ")"}

UrlPathChars ==
    Alnum \cup {"-", "(", ")", "@", ":", "%", "_", "+", ".", "~", "#", "?", "&", "/", "="}

\* https?:\/\/(www\.)?
UrlSchemeEnds(str) ==
    UNION {{q} \cup ExactEnds(str, q, <<"w", "w", "w", ".">>) :
              q \in UNION {ExactEnds(str, r, <<":", "/", "/">>) :
                              r \in ExactEnds(str, 1, <<"h", "t", "t", "p">>)
                                    \cup ExactEnds(str, 1, <<"h", "t", "t", "p", "s">>)}}

\* [-a-zA-Z0-9@:%._+~#=]{1,256}(\.[-a-zA-Z0-9()]{1,6})?
UrlHostEnds(str, p) ==
    UNION {{q} \cup UNION {RunEnds(str, r, UrlSuffixChars, 1, 6) :
                              r \in ExactEnds(str, q, <<".">>)} :
              q \in RunEnds(str, p, UrlHostChars, 1, 256)}

\* (:\d{1,5})?
UrlPortEnds(str, p) ==
    {p} \cup UNION {RunEnds(str, q, Digits, 1, 5) : q \in ExactEnds(str, p, <<":">>)}

\* (\/[-a-zA-Z0-9()@:%_+.~#?&/=]*)?
UrlPathEnds(str, p) ==
    {p} \cup UNION {RunEnds(str, q, UrlPathChars, 0, Len(str)) :
                       q \in ExactEnds(str, p, <<"/">>)}

\* URL_REGEX
MatchesUrl(str) ==
    (Len(str) + 1) \in
        UNION {UrlPathEnds(str, r) :
                  r \in UNION {UrlPortEnds(str, q) :
                                  q \in UNION {UrlHostEnds(str, p) : p \in UrlSchemeEnds(str)}}}

\* validateUrl, on a string
validateUrl(url) ==
    IF url = <<>> THEN FALSE
    ELSE IF Len(trim(url)) = 0 \/ Len(trim(url)) > 2048 THEN FALSE
    ELSE MatchesUrl(trim(url))

\* validateToken, on a string
validateToken(tok) ==
    IF tok = <<>> THEN FALSE
    ELSE startsWith(trim(tok), <<"p", "y", "p", "i", "-">>) /\ Len(trim(tok)) > 20

\* replace(/[._]+/g, '-') from the 1-based position i: every run of '.' and '_'
\* becomes one '-'.
RECURSIVE ReplaceSeparatorRuns(_, _)
ReplaceSeparatorRuns(str, i) ==
    IF i > Len(str) THEN <<>>
    ELSE IF str[i] \notin {".", "_"} THEN <<str[i]>> \o ReplaceSeparatorRuns(str, i + 1)
    ELSE IF i > 1 /\ str[i - 1] \in {".", "_"} THEN ReplaceSeparatorRuns(str, i + 1)
    ELSE <<"-">> \o ReplaceSeparatorRuns(str, i + 1)

\* replace(/[._]+/, '-') without the g flag: only the first run is replaced.
normalizePackageNameFirstRun(name) ==
    LET lower == toLowerCase(name)
        seps == {i \in 1..Len(lower) : lower[i] \in {".", "_"}}
    IN  IF seps = {} THEN lower
        ELSE LET first == CHOOSE i \in seps : \A j \in seps : i <= j
                 after == CHOOSE j \in (first + 1)..(Len(lower) + 1) :
                              /\ \A k \in first..(j - 1) : k \in seps
                              /\ j \notin seps
             IN  SubSeq(lower, 1, first - 1) \o <<"-">> \o SubSeq(lower, after, Len(lower))

\* normalizePackageName, on a string
normalizePackageName(name) == ReplaceSeparatorRuns(toLowerCase(name), 1)

\* arePackageNamesEquivalent, on strings
arePackageNamesEquivalent(name1, name2) ==
    normalizePackageName(name1) = normalizePackageName(name2)

\* name.toLowerCase() on a value that is no string
TypeError == "TypeError"

\* The values the validators are called with: values that are no strings, the
\* empty string, and strings one validator or another accepts.
NonStrings == {JsNull, JsUndefined, JsNumber(0), JsNumber(123)}

SampleStrings ==
    {<<>>,
     <<"r", "e", "q", "u", "e", "s", "t", "s">>,
     <<"M", "y", "_", "P", "k", "g", ".", "x">>,
     <<"1", ".", "0", ".", "p", "o", "s", "t", "1">>,
     <<"u", "s", "e", "r", "@", "e", "x", "a", "m", "p", "l", "e", ".", "c", "o", "m">>,
     <<"h", "t", "t", "p", "s", ":", "/", "/", "e", "x", "a", "m", "p", "l", "e", ".", "c", "o", "m", "/", "a">>,
     <<"p", "y", "p", "i", "-", "A", "g", "E", "I", "c", "H", "l", "w", "a", "S", "5", "v", "c", "m", "c", "C", "J", "A">>,
     <<"d", "/", "a", "-", "1", ".", "0", ".", "t", "a", "r", ".", "g", "z">>,
     <<" ", "a", " ">>}

\* Every string of at most MaxNameLength characters over letters, a digit,
\* the three separators and the space.
MaxNameLength == 3

NameChars == {"a", "B", "1", "-", "_", ".", " "}

StringsOver(chars, n) == UNION {[1..k -> chars] : k \in 0..n}

\* 'a'.repeat(n)
Repeated(n) == [i \in 1..n |-> "a"]

PackageNameStrings ==
    StringsOver(NameChars, MaxNameLength)
    \cup {Repeated(MaxPackageNameLength), Repeated(MaxPackageNameLength + 1),
          Repeated(MaxPackageNameLength - 1) \o <<"-">>}

Validators ==
    {"validatePackageName", "validateVersion", "validateEmail", "validateUrl",
     "normalizePackageName", "validateDistributionPath", "validateToken"}

ValidatorCalls ==
    {[fn |-> fn, arg |-> v] :
        fn \in Validators, v \in NonStrings \cup {JsString(str) : str \in SampleStrings}}
    \cup {[fn |-> "validatePackageName", arg |-> JsString(str)] : str \in PackageNameStrings}
    \cup {[fn |-> "arePackageNamesEquivalent", arg |-> v, arg2 |-> w] :
             v, w \in {JsNull, JsNumber(123), JsString(<<"m", "y", "_", "p", "k", "g">>), JsString(<<"M", "y", "-", "P", "k", "g">>)}}

ValidatePackageName ==
    /\ Calls("validatePackageName")
    /\ Ends(Returned(IF Refused(libCall.arg) THEN FALSE
                     ELSE validatePackageName(libCall.arg.val)))

ValidateVersion ==
    /\ Calls("validateVersion")
    /\ Ends(Returned(IF Refused(libCall.arg) THEN FALSE ELSE validateVersion(libCall.arg.val)))

ValidateEmail ==
    /\ Calls("validateEmail")
    /\ Ends(Returned(IF Refused(libCall.arg) THEN FALSE ELSE validateEmail(libCall.arg.val)))

ValidateUrl ==
    /\ Calls("validateUrl")
    /\ Ends(Returned(IF Refused(libCall.arg) THEN FALSE ELSE validateUrl(libCall.arg.val)))

ValidateDistributionPath ==
    /\ Calls("validateDistributionPath")
    /\ Ends(Returned(IF Refused(libCall.arg) THEN FALSE
                     ELSE validateDistributionPath(libCall.arg.val)))

ValidateToken ==
    /\ Calls("validateToken")
    /\ Ends(Returned(IF Refused(libCall.arg) THEN FALSE ELSE validateToken(libCall.arg.val)))

\* normalizePackageName has no guard: name.toLowerCase() throws a TypeError for
\* null and undefined (no properties) and for a number (no such method).
NormalizePackageName ==
    /\ Calls("normalizePackageName")
    /\ Ends(IF libCall.arg.type = "string"
            THEN Returned(normalizePackageName(libCall.arg.val))
            ELSE Thrown(TypeError))

\* arePackageNamesEquivalent normalizes name1, then name2.
ArePackageNamesEquivalent ==
    /\ Calls("arePackageNamesEquivalent")
    /\ Ends(IF libCall.arg.type = "string" /\ libCall.arg2.type = "string"
            THEN Returned(arePackageNamesEquivalent(libCall.arg.val, libCall.arg2.val))
            ELSE Thrown(TypeError))

\* C19: every function of the validators component returns, whatever the type
\* of its argument, and the boolean ones return false for an argument that is
\* no string.
C19_ValidatorsAreTotal ==
    (libCall.fn \in Validators \cup {"arePackageNamesEquivalent"} /\ libResult # None)
      => /\ libResult[1].kind = "returned"
         /\ (libCall.fn # "normalizePackageName" /\ libCall.arg.type # "string")
               => libResult[1].value = FALSE

\* The package-name grammar: an alphanumeric, optionally followed by any
\* mixture of alphanumerics, '.', '_' and '-' that ends in an alphanumeric.
InGrammar(str) ==
    /\ str # <<>>
    /\ Head(str) \in Alnum
    /\ \A i \in 2..(Len(str) - 1) : str[i] \in Alnum \cup {".", "_", "-"}
    /\ str[Len(str)] \in Alnum

SeparatorAtAnEnd(str) ==
    str # <<>> /\ (Head(str) \in {"-", "_", "."} \/ str[Len(str)] \in {"-", "_", "."})

\* C20 as stated: validatePackageName is true for every string of the grammar
\* and false for every string with a leading or trailing '-', '_' or '.'.
C20_PackageNameGrammar ==
    (HasReturned("validatePackageName") /\ libCall.arg.type = "string")
      => /\ InGrammar(libCall.arg.val) => libResult[1].value = TRUE
         /\ SeparatorAtAnEnd(libCall.arg.val) => libResult[1].value = FALSE

\* C20 as amended: validatePackageName is true for every string of the grammar
\* of at most 214 characters, and false for every string with a leading or
\* trailing '-', '_' or '.'.
C20_PackageNameGrammarUpTo214 ==
    (HasReturned("validatePackageName") /\ libCall.arg.type = "string")
      => /\ (InGrammar(libCall.arg.val) /\ Len(libCall.arg.val) <= 214)
               => libResult[1].value = TRUE
         /\ SeparatorAtAnEnd(libCall.arg.val) => libResult[1].value = FALSE

C20_Witness ==
    /\ HasReturned("validatePackageName")
    /\ libCall.arg.type = "string"
    /\ Len(libCall.arg.val) = 214
    /\ InGrammar(libCall.arg.val)
    /\ libResult[1].value = TRUE

\* ------------------------------------------------------------ normalization

\* normalizePackageName on every short string over letters, a digit, the
\* separators and the space, and arePackageNamesEquivalent on every pair of
\* shorter strings over a letter in both cases and the separators.
NormalizeCalls ==
    {[fn |-> "normalizePackageName", arg |-> JsString(str)] :
        str \in StringsOver(NameChars, MaxNameLength)}

EquivalentChars == {"a", "B", "-", "_", "."}

EquivalentCalls ==
    {[fn |-> "arePackageNamesEquivalent", arg |-> JsString(x), arg2 |-> JsString(y)] :
        x, y \in StringsOver(EquivalentChars, MaxNameLength - 1)}

\* C21: normalizePackageName is idempotent: normalizing a returned name gives
\* the same name again; and arePackageNamesEquivalent(x, y) is true whenever y
\* is the normalized form of x.
C21_NormalizeIdempotent ==
    /\ (HasReturned("normalizePackageName") /\ libCall.arg.type = "string")
         => /\ libResult[1].kind = "returned"
            /\ normalizePackageName(libResult[1].value) = libResult[1].value
    /\ (HasReturned("arePackageNamesEquivalent")
            /\ libCall.arg.type = "string" /\ libCall.arg2.type = "string"
            /\ libCall.arg2.val = normalizePackageName(libCall.arg.val))
         => libResult[1] = Returned(TRUE)

\* a name with two separate runs of separators and a capital has been normalized
C21_Witness ==
    /\ HasReturned("normalizePackageName")
    /\ libCall.arg = JsString(<<"_", "B", ".">>)
    /\ libResult[1] = Returned(<<"-", "b", "-">>)

\* ------------------------------------------------------- uploadToRepository

\* Where a call inside uploadToRepository's try block rejects: nowhere, in
\* file.exists(), or in response.text().
UploadFaults == {"none", "exists", "text"}

UploadToRepositoryCalls ==
    {[fn |-> "uploadToRepository", path |-> Sdist, fs |-> fs, repo |-> repo,
      fetched |-> fetched, fault |-> fault] :
        fs \in {NoFiles, [p \in {Sdist} |-> 2048]}, repo \in {RepoPyPI, RepoTestPyPI},
        fetched \in UploadResponses, fault \in UploadFaults}

\* What the catch block returns for an error that is no AbortError.
uploadFailed(message) == UploadResult(FALSE, Text(message), None, None)

\* uploadToRepository without its try and catch
uploadToRepositoryUncaught(fs, filePath, repo, fetched, fault) ==
    IF fault = "exists" THEN Thrown(FaultMessage)
    ELSE IF ~exists(fs, filePath) THEN Returned(fileNotFound(filePath))
    ELSE IF fetched.kind # "http" THEN Thrown(fetched.kind)
    ELSE IF ~responseOk(fetched) /\ fault = "text" THEN Thrown(FaultMessage)
    ELSE Returned(uploadToRepositoryResult(filePath, repo, fetched))

\* uploadToRepository(filePath, token, repository), given the files there are,
\* what fetch ends with and the call that rejects
uploadToRepository(fs, filePath, repo, fetched, fault) ==
    IF fault = "exists" THEN Returned(uploadFailed(FaultMessage))
    ELSE IF ~exists(fs, filePath) THEN Returned(fileNotFound(filePath))
    ELSE IF fetched.kind = "http" /\ ~responseOk(fetched) /\ fault = "text"
    THEN Returned(uploadFailed(FaultMessage))
    ELSE Returned(uploadToRepositoryResult(filePath, repo, fetched))

UploadToRepository ==
    /\ Calls("uploadToRepository")
    /\ Ends(uploadToRepository(libCall.fs, libCall.path, libCall.repo, libCall.fetched,
                               libCall.fault))

\* fetch was called and resolved with an HTTP response
GotHttpResponse ==
    /\ libCall.fault # "exists"
    /\ exists(libCall.fs, libCall.path)
    /\ libCall.fetched.kind = "http"

\* C27: uploadToRepository always returns an UploadResult; a result with
\* success = true has the message 'Package uploaded successfully'; a result has
\* a statusCode only if an HTTP response was received, and then it is that
\* response's status; a missing file, a timeout and a transport failure give
\* success = false.
C27_UploadNeverThrows ==
    (libCall.fn = "uploadToRepository" /\ libResult # None)
      => /\ libResult[1].kind = "returned"
         /\ DOMAIN libResult[1].value = {"success", "message", "statusCode", "url"}
         /\ libResult[1].value.success
               => libResult[1].value.message = Text("Package uploaded successfully")
         /\ libResult[1].value.statusCode # None
               => GotHttpResponse /\ libResult[1].value.statusCode = Some(libCall.fetched.status)
         /\ ~GotHttpResponse
               => ~libResult[1].value.success /\ libResult[1].value.statusCode = None

\* the 60 second timer aborted fetch: a result without statusCode
C27_Witness ==
    /\ HasReturned("uploadToRepository")
    /\ exists(libCall.fs, libCall.path)
    /\ libCall.fault = "none"
    /\ libCall.fetched = AbortError
    /\ libResult[1].value =
          UploadResult(FALSE, Text("Upload timeout after 60 seconds"), None, None)

\* ------------------------------------------------------------ specification

LibCalls ==
    MaskApiTokenCalls \cup ValidateDistributionCalls \cup ExtractSdistCalls
    \cup ExtractWheelCalls \cup ValidatorCalls \cup NormalizeCalls \cup EquivalentCalls
    \cup UploadToRepositoryCalls

LibInit ==
    /\ libCall \in LibCalls
    /\ libResult = None
    /\ CacheIdle
    /\ ReqIdle
    /\ CliIdle

LibNext ==
    \/ MaskApiToken
    \/ ValidateDistribution
    \/ UploaderValidateDistribution
    \/ ExtractMetadataFromSdist
    \/ ExtractMetadataFromWheel
    \/ ValidatePackageName
    \/ ValidateVersion
    \/ ValidateEmail
    \/ ValidateUrl
    \/ ValidateDistributionPath
    \/ ValidateToken
    \/ NormalizePackageName
    \/ ArePackageNamesEquivalent
    \/ UploadToRepository

SpecLib == LibInit /\ [][LibNext]_vars

\* =========================================================== SimpleCache

\* The clock is read up to this time; it never goes back.
MaxTime == 4

CacheEntry(data, timestamp, ttl) == [data |-> data, timestamp |-> timestamp, ttl |-> ttl]

Without(map, key) == [k \in DOMAIN map \ {key} |-> map[k]]

\* get with `>=` in place of `>`: an entry is dropped in its last millisecond
cacheGetAtLeast(map, key, time) ==
    IF key \notin DOMAIN map THEN [value |-> None, cache |-> map]
    ELSE IF time - map[key].timestamp >= map[key].ttl
    THEN [value |-> None, cache |-> Without(map, key)]
    ELSE [value |-> Some(map[key].data), cache |-> map]

\* get(key) at the given time: what it returns (None: null) and the map it leaves
cacheGet(map, key, time) ==
    IF key \notin DOMAIN map THEN [value |-> None, cache |-> map]
    ELSE IF time - map[key].timestamp > map[key].ttl
    THEN [value |-> None, cache |-> Without(map, key)]
    ELSE [value |-> Some(map[key].data), cache |-> map]

\* set(key, data, ttl) at the given time
cacheSet(map, key, data, ttl, time) ==
    [k \in DOMAIN map \cup {key} |->
        IF k = key THEN CacheEntry(data, time, ttl) ELSE map[k]]

\* delete(key)
cacheDelete(map, key) == Without(map, key)

\* clear()
cacheClear(map) == [k \in {} |-> None]

\* size()
cacheSize(map) == Cardinality(DOMAIN map)

Get ==
    \E key \in CacheKeys :
       /\ cache' = cacheGet(cache, key, now).cache
       /\ lastOp' = [NoOp EXCEPT !.op = "get", !.key = key, !.at = now,
                                 !.value = cacheGet(cache, key, now).value,
                                 !.had = key \in DOMAIN cache, !.size = cacheSize(cache)]
       /\ UNCHANGED <<now, written, libCall, libResult, reqVars, cliVars>>

Set ==
    \E key \in CacheKeys, data \in CacheValues, ttl \in TTLs :
       /\ cache' = cacheSet(cache, key, data, ttl, now)
       /\ written' = [written EXCEPT ![key] = Some(CacheEntry(data, now, ttl))]
       /\ lastOp' = [NoOp EXCEPT !.op = "set", !.key = key, !.at = now, !.value = Some(data),
                                 !.ttl = ttl]
       /\ UNCHANGED <<now, libCall, libResult, reqVars, cliVars>>

Delete ==
    \E key \in CacheKeys :
       /\ cache' = cacheDelete(cache, key)
       /\ written' = [written EXCEPT ![key] = None]
       /\ lastOp' = [NoOp EXCEPT !.op = "delete", !.key = key]
       /\ UNCHANGED <<now, libCall, libResult, reqVars, cliVars>>

Clear ==
    /\ cache' = cacheClear(cache)
    /\ written' = [k \in CacheKeys |-> None]
    /\ lastOp' = [NoOp EXCEPT !.op = "clear"]
    /\ UNCHANGED <<now, libCall, libResult, reqVars, cliVars>>

Size ==
    /\ lastOp' = [NoOp EXCEPT !.op = "size", !.size = cacheSize(cache)]
    /\ UNCHANGED <<cache, now, written, libCall, libResult, reqVars, cliVars>>

\* A millisecond passes.
Tick ==
    /\ now < MaxTime
    /\ now' = now + 1
    /\ UNCHANGED <<cache, lastOp, written, libCall, libResult, reqVars, cliVars>>

CacheInit ==
    /\ CacheIdle
    /\ libCall = NoCall
    /\ libResult = None
    /\ ReqIdle
    /\ CliIdle

CacheNext ==
    \/ Get
    \/ Set
    \/ Delete
    \/ Clear
    \/ Size
    \/ Tick

SpecCache == CacheInit /\ [][CacheNext]_vars

\* ------------------------------------------------------ claims on the cache

\* The last call was get(k), and a set(k, ...) that no delete or clear followed
\* came before it.
GotWritten == lastOp.op = "get" /\ written[lastOp.key] # None

Elapsed == lastOp.at - written[lastOp.key][1].timestamp

\* C29: a get(k) at time t' after a set(k, v, ttl) at time t that no later set,
\* delete or clear of k followed returns v when t' - t <= ttl and null when
\* t' - t > ttl; a get that finds an expired entry removes it, so that size() is
\* one less; a later set replaces data, timestamp and ttl together; and get
\* returns nothing but the data of an entry whose ttl has not elapsed.
C29_TtlCache ==
    /\ GotWritten
         => /\ Elapsed <= written[lastOp.key][1].ttl
                 => /\ lastOp.value = Some(written[lastOp.key][1].data)
                    /\ cacheSize(cache) = lastOp.size
            /\ Elapsed > written[lastOp.key][1].ttl
                 => /\ lastOp.value = None
                    /\ lastOp.key \notin DOMAIN cache
                    /\ lastOp.had => cacheSize(cache) = lastOp.size - 1
    /\ (lastOp.op = "get" /\ lastOp.value # None)
         => GotWritten /\ Elapsed <= written[lastOp.key][1].ttl
    /\ lastOp.op = "set"
         => cache[lastOp.key] = CacheEntry(lastOp.value[1], lastOp.at, lastOp.ttl)
    /\ \A k \in DOMAIN cache : written[k] = Some(cache[k])

\* the key was set at time 1 with a ttl of 2 and read at time 3, the last
\* moment of the entry's life: the value is returned
C29_Witness ==
    /\ GotWritten
    /\ written[lastOp.key] = Some(CacheEntry("v2", 1, 2))
    /\ lastOp.at = 3
    /\ lastOp.value = Some("v2")

\* a get found the entry expired and removed it
C29_WitnessExpired ==
    /\ GotWritten
    /\ Elapsed > written[lastOp.key][1].ttl
    /\ lastOp.had
    /\ lastOp.value = None
    /\ cacheSize(cache) = lastOp.size - 1

\* ============================================================ PyPIClient

DefaultTimeout == 30000

DefaultMaxRetries == 3

BackoffBase == 1000

BackoffCap == 4000

\* this.timeout = options.timeout || 30000
timeout == OrElse(optTimeout, {0}, DefaultTimeout)

\* this.maxRetries = options.maxRetries || 3
maxRetries == OrElse(optMaxRetries, {0}, DefaultMaxRetries)

calculateBackoffFromOne(n) == Min(BackoffBase * Pow2(n + 1), BackoffCap)

\* Math.min(1000 * Math.pow(2, attempt), 4000)
calculateBackoff(n) == Min(BackoffBase * Pow2(n), BackoffCap)

\* new PyPIAPIError(message, statusCode, details): details are not modelled.
PyPIAPIError(message, statusCode) ==
    [name |-> "PyPIAPIError", message |-> message, statusCode |-> statusCode]

\* An error that is no PyPIAPIError: fetch's TypeError, response.json()'s SyntaxError.
OtherError(name) == [name |-> name, message |-> Text(name), statusCode |-> None]

\* The status codes the servers answer with.
OkStatuses == {200, 204}

ErrorStatuses == {400, 404, 429, 500, 503}

\* The values of a 429 response's Retry-After header (None: no such header).
RetryAfterValues == {None, Some(<<>>), Some(<<"3", "0">>)}

\* The message field of an error response's JSON body (None: no JSON, no such
\* field, or not a string), for a response with the given status.
ErrorDataMessages(status) ==
    IF status >= 500 THEN {None, Some("upstream unavailable")}
    ELSE {None, Some(""), Some("bad request")}

\* response.ok
ok(status) == status >= 200 /\ status <= 299

\* (typeof errorData.message === 'string' ? errorData.message : undefined) ||
\*   `API request failed with status ${response.status}`
errorMessage(r) ==
    IF r.message = None \/ r.message[1] = ""
    THEN Msg("API request failed with status {num}", Some(r.status), None)
    ELSE Text(r.message[1])

shouldRetryAnyError(status) == status >= 400 /\ attempt < maxRetries - 1

shouldRetryLastToo(status) == status >= 500 /\ attempt < maxRetries

\* response.status >= 500 && attempt < this.maxRetries - 1
shouldRetry(status) == status >= 500 /\ attempt < maxRetries - 1

\* `Rate limited${retryAfter ? `. Retry after ${retryAfter}s` : ''}`
rateLimitedMessage(retryAfter) ==
    IF retryAfter = None \/ retryAfter[1] = <<>>
    THEN Text("Rate limited")
    ELSE Msg("Rate limited. Retry after {str}s", None, retryAfter)

\* What the error branch throws for a response that is not retried.
thrownFor(r) ==
    IF r.status = 404 THEN PyPIAPIError(Text("Package not found"), Some(404))
    ELSE IF r.status = 429 THEN PyPIAPIError(rateLimitedMessage(r.retryAfter), Some(429))
    ELSE PyPIAPIError(errorMessage(r), Some(r.status))

\* new PyPIAPIError(`Request timeout after ${this.timeout}ms`, 0, ...)
timeoutError ==
    PyPIAPIError(Msg("Request timeout after {num}ms", Some(timeout), None), Some(0))

\* The methods of PyPIClient that are called: each calls request() once.
Methods == {"searchPackages", "packageExists", "getVulnerabilities"}

\* pkg.data.info of a successful lookup, as far as searchPackages copies it.
PackageInfos == {[name |-> "requests", version |-> "2.31.0"]}

\* What parseRateLimitHeaders made of a response's headers (None: undefined).
RateLimits == {None, Some([limit |-> 100, remaining |-> 99, reset |-> 60])}

\* response.data.vulns of a successful query (None: no such field).
Vulns == {None, Some(<<>>), Some(<<"GHSA-1">>), Some(<<"GHSA-1", "PYSEC-2">>)}

\* error instanceof PyPIAPIError && error.statusCode === 404, with the mistake
\* of taking every PyPIAPIError for it before it
isNotFoundAnyApiError(error) == error.name = "PyPIAPIError"

isNotFound(error) == error.name = "PyPIAPIError" /\ error.statusCode = Some(404)

\* searchPackages, given what getPackage (that is, request) ended with
searchPackages(ended, info, rateLimit) ==
    IF ended.kind = "return"
    THEN Returned([data |-> <<info>>, rateLimit |-> rateLimit])
    ELSE IF isNotFound(ended.error)
    THEN Returned([data |-> <<>>, rateLimit |-> None])
    ELSE Thrown(ended.error)

\* packageExists, given what getPackage ended with
packageExists(ended) ==
    IF ended.kind = "return" THEN Returned(TRUE)
    ELSE IF isNotFound(ended.error) THEN Returned(FALSE)
    ELSE Thrown(ended.error)

\* getVulnerabilities with a catch block that rethrows
getVulnerabilitiesRethrows(ended, found, rateLimit) ==
    IF ended.kind = "return"
    THEN Returned([data |-> OrElse(found, {}, <<>>), rateLimit |-> rateLimit])
    ELSE Thrown(ended.error)

\* getVulnerabilities, given what request ended with: response.data.vulns || []
\* on success, an empty list from the catch block
getVulnerabilities(ended, found, rateLimit) ==
    IF ended.kind = "return"
    THEN Returned([data |-> OrElse(found, {}, <<>>), rateLimit |-> rateLimit])
    ELSE Returned([data |-> <<>>, rateLimit |-> None])

ReqInit ==
    /\ optMaxRetries \in {None} \cup {Some(n) : n \in -1..MaxRetriesOpt}
    /\ optTimeout \in {None, Some(0), Some(5000)}
    /\ attempt = 0
    /\ rpc = "loop"
    /\ sent = 0
    /\ responses = <<>>
    /\ delays = <<>>
    /\ lastError = None
    /\ outcome = None
    /\ method \in Methods
    /\ methodResult = None
    /\ CliIdle
    /\ LibIdle

Finish(o) ==
    /\ outcome' = o
    /\ rpc' = "done"

\* The loop head with attempt < maxRetries: the next fetch call is made.
ReqSend ==
    /\ rpc = "loop"
    /\ attempt < maxRetries
    /\ sent' = sent + 1
    /\ rpc' = "fetch"
    /\ UNCHANGED <<optMaxRetries, optTimeout, attempt, responses, delays, lastError, outcome>>
    /\ UNCHANGED <<callVars, cliVars, libVars>>

\* The loop ends: throw lastError || new PyPIAPIError('Request failed after maximum retries')
ReqExhausted ==
    /\ rpc = "loop"
    /\ attempt >= maxRetries
    /\ Finish([kind |-> "throw",
               error |-> IF lastError = None
                         THEN PyPIAPIError(Text("Request failed after maximum retries"), None)
                         ELSE lastError[1]])
    /\ UNCHANGED <<optMaxRetries, optTimeout, attempt, sent, responses, delays, lastError>>
    /\ UNCHANGED <<callVars, cliVars, libVars>>

\* A 2xx response: its body is parsed and returned; a body that is no JSON makes
\* response.json() throw, and the catch block rethrows what is no PyPIAPIError.
ReqHttpOk ==
    /\ rpc = "fetch"
    /\ \E status \in OkStatuses, json \in BOOLEAN :
          LET r == [kind |-> "http", status |-> status, message |-> None,
                    retryAfter |-> None, json |-> json]
          IN /\ responses' = Append(responses, r)
             /\ Finish(IF json THEN [kind |-> "return", status |-> status]
                               ELSE [kind |-> "throw", error |-> OtherError("SyntaxError")])
    /\ UNCHANGED <<optMaxRetries, optTimeout, attempt, sent, delays, lastError>>
    /\ UNCHANGED <<callVars, cliVars, libVars>>

\* A non-2xx response: a 5xx before the last attempt is remembered and slept on;
\* anything else is thrown, passes the catch block and leaves request().
ReqHttpError ==
    /\ rpc = "fetch"
    /\ \E status \in ErrorStatuses :
       \E m \in ErrorDataMessages(status),
          ra \in (IF status = 429 THEN RetryAfterValues ELSE {None}) :
          LET r == [kind |-> "http", status |-> status, message |-> m,
                    retryAfter |-> ra, json |-> FALSE]
          IN /\ responses' = Append(responses, r)
             /\ IF shouldRetry(status)
                THEN /\ lastError' = Some(PyPIAPIError(errorMessage(r), Some(status)))
                     /\ delays' = Append(delays, calculateBackoff(attempt))
                     /\ rpc' = "sleep"
                     /\ UNCHANGED outcome
                ELSE /\ lastError' = IF status >= 500 THEN Some(thrownFor(r)) ELSE lastError
                     /\ Finish([kind |-> "throw", error |-> thrownFor(r)])
                     /\ UNCHANGED delays
    /\ UNCHANGED <<optMaxRetries, optTimeout, attempt, sent>>
    /\ UNCHANGED <<callVars, cliVars, libVars>>

\* The timeout fires before fetch settles: controller.abort() makes it reject with
\* an AbortError, which the catch block turns into the timeout error.
ReqAbort ==
    /\ rpc = "fetch"
    /\ responses' = Append(responses, [kind |-> "abort", status |-> 0, message |-> None,
                                       retryAfter |-> None, json |-> FALSE])
    /\ Finish([kind |-> "throw", error |-> timeoutError])
    /\ UNCHANGED <<optMaxRetries, optTimeout, attempt, sent, delays, lastError>>
    /\ UNCHANGED <<callVars, cliVars, libVars>>

\* fetch rejects with a transport error, which the catch block rethrows.
ReqNetworkError ==
    /\ rpc = "fetch"
    /\ responses' = Append(responses, [kind |-> "network", status |-> 0, message |-> None,
                                       retryAfter |-> None, json |-> FALSE])
    /\ Finish([kind |-> "throw", error |-> OtherError("TypeError")])
    /\ UNCHANGED <<optMaxRetries, optTimeout, attempt, sent, delays, lastError>>
    /\ UNCHANGED <<callVars, cliVars, libVars>>

\* sleep(delay) resolves; continue: attempt++ and back to the loop head.
ReqWake ==
    /\ rpc = "sleep"
    /\ attempt' = attempt + 1
    /\ rpc' = "loop"
    /\ UNCHANGED <<optMaxRetries, optTimeout, sent, responses, delays, lastError, outcome>>
    /\ UNCHANGED <<callVars, cliVars, libVars>>

\* request() has ended: the method that called it ends.
MethodEnds(result) ==
    /\ methodResult' = Some(result)
    /\ UNCHANGED <<optMaxRetries, optTimeout, attempt, rpc, sent, responses, delays,
                   lastError, outcome, method, cliVars, libVars>>

SearchPackages ==
    /\ method = "searchPackages"
    /\ rpc = "done"
    /\ methodResult = None
    /\ \E info \in PackageInfos, rateLimit \in RateLimits :
          MethodEnds(searchPackages(outcome, info, rateLimit))

PackageExists ==
    /\ method = "packageExists"
    /\ rpc = "done"
    /\ methodResult = None
    /\ MethodEnds(packageExists(outcome))

GetVulnerabilities ==
    /\ method = "getVulnerabilities"
    /\ rpc = "done"
    /\ methodResult = None
    /\ \E found \in Vulns, rateLimit \in RateLimits :
          MethodEnds(getVulnerabilities(outcome, found, rateLimit))

ReqNext ==
    \/ SearchPackages
    \/ PackageExists
    \/ GetVulnerabilities
    \/ ReqSend
    \/ ReqExhausted
    \/ ReqHttpOk
    \/ ReqHttpError
    \/ ReqAbort
    \/ ReqNetworkError
    \/ ReqWake

\* ------------------------------------------------- claims on PyPIClient.request

IsHttp5xx(r) == r.kind = "http" /\ r.status >= 500

AllHttp5xx(rs) == \A i \in DOMAIN rs : IsHttp5xx(rs[i])

StatusesOf(rs) == [i \in DOMAIN rs |-> rs[i].status]

\* C3: with the default maxRetries, a server answering 500, 500, 200 makes
\* request() return the 200 response after exactly 3 requests, having slept
\* 1000 ms and then 2000 ms; it has not given up after the first or the second
\* 500, and no sleep of any run is longer than 4000 ms or shorter than the one
\* before it.
C3_RetryThenSuccess ==
    /\ \A i \in DOMAIN delays :
          /\ delays[i] <= 4000
          /\ i > 1 => delays[i - 1] <= delays[i]
    /\ (optMaxRetries = None /\ AllHttp5xx(responses) /\ Len(responses) \in {1, 2})
          => rpc # "done"
    /\ ( /\ optMaxRetries = None
         /\ Len(responses) = 3
         /\ AllHttp5xx(SubSeq(responses, 1, 2))
         /\ StatusesOf(responses) = <<500, 500, 200>>
         /\ responses[3].json )
          => /\ rpc = "done"
             /\ outcome = [kind |-> "return", status |-> 200]
             /\ sent = 3
             /\ delays = <<1000, 2000>>
             /\ delays[1] < delays[2]

C3_Witness ==
    /\ rpc = "done"
    /\ optMaxRetries = None
    /\ StatusesOf(responses) = <<500, 500, 200>>
    /\ outcome # None
    /\ outcome.kind = "return"

\* C4: when every response is a 5xx, request() makes maxRetries requests (3 by
\* default), sleeping between them, and then throws the PyPIAPIError of the
\* last response, with that response's status code; it returns no value, and
\* it never makes more than maxRetries requests.
C4_ExhaustedThrowsLast ==
    /\ sent <= (IF maxRetries < 0 THEN 0 ELSE maxRetries)
    /\ attempt <= sent
    /\ (AllHttp5xx(responses) /\ Len(responses) >= 1 /\ rpc = "done")
          => /\ outcome.kind = "throw"
             /\ outcome.error.name = "PyPIAPIError"
             /\ outcome.error.statusCode = Some(Last(responses).status)
             /\ sent = maxRetries
             /\ optMaxRetries = None => sent = 3
             /\ Len(responses) = maxRetries
             /\ Len(delays) = maxRetries - 1

C4_Witness ==
    /\ rpc = "done"
    /\ optMaxRetries = None
    /\ Len(responses) = 3
    /\ AllHttp5xx(responses)
    /\ responses[1].status # responses[3].status
    /\ outcome.kind = "throw"

\* C5: only a 5xx response is followed by another request.  A 404, a 429, any
\* other non-5xx error status, a timeout abort or a transport failure ends
\* request() at once with a throw: after one request when it is the first
\* response; the 404 as 'Package not found' with status 404, the 429 as 'Rate
\* limited' naming the Retry-After value when the header carries one, the abort
\* as a timeout error naming the configured timeout.
C5_OnlyServerErrorsRetried ==
    /\ \A i \in 1..(Len(responses) - 1) : IsHttp5xx(responses[i])
    /\ (rpc # "done" /\ rpc # "fetch") => AllHttp5xx(responses)
    /\ (Len(responses) >= 1 /\ ~IsHttp5xx(Last(responses))
          /\ ~(Last(responses).kind = "http" /\ ok(Last(responses).status)))
          => LET r == Last(responses)
                 e == outcome.error
             IN /\ rpc = "done"
                /\ outcome.kind = "throw"
                /\ sent = Len(responses)
                /\ Len(responses) = 1 => sent = 1 /\ delays = <<>>
                /\ (r.kind = "http" /\ r.status = 404)
                      => e = PyPIAPIError(Text("Package not found"), Some(404))
                /\ (r.kind = "http" /\ r.status = 429)
                      => /\ e.name = "PyPIAPIError" /\ e.statusCode = Some(429)
                         /\ r.retryAfter = None => e.message = Text("Rate limited")
                         /\ (r.retryAfter # None /\ r.retryAfter[1] # <<>>)
                               => e.message = Msg("Rate limited. Retry after {str}s",
                                                  None, r.retryAfter)
                /\ (r.kind = "http" /\ r.status \notin {404, 429})
                      => e.name = "PyPIAPIError" /\ e.statusCode = Some(r.status)
                /\ r.kind = "abort"
                      => /\ e.name = "PyPIAPIError"
                         /\ e.message.tmpl = "Request timeout after {num}ms"
                         /\ e.message.num =
                               (IF optTimeout \in {None, Some(0)} THEN Some(30000)
                                ELSE optTimeout)
                /\ r.kind = "network" => e.name = "TypeError"

C5_Witness ==
    /\ rpc = "done"
    /\ sent = 1
    /\ Len(responses) = 1
    /\ responses[1].status = 429
    /\ responses[1].retryAfter = Some(<<"3", "0">>)
    /\ outcome.kind = "throw"

\* ------------------------------------------------ claims on the lookup methods

MethodEnded(name) == method = name /\ methodResult # None

\* What request()'s last fetch call ended with (nothing when no call was made).
Answered(status) ==
    /\ responses # <<>>
    /\ Last(responses).kind = "http"
    /\ Last(responses).status = status

Succeeded == responses # <<>> /\ Last(responses).kind = "http" /\ ok(Last(responses).status)
                              /\ Last(responses).json

\* C25: when the lookup's last response is a 404, searchPackages returns an
\* empty list and packageExists returns false; when the lookup succeeds, they
\* return a one-element list and true; in every other case they throw the very
\* error request() threw.
C25_NotFoundIsAbsent ==
    /\ MethodEnded("searchPackages")
         => IF Succeeded
            THEN methodResult[1].kind = "returned" /\ Len(methodResult[1].value.data) = 1
            ELSE IF Answered(404)
            THEN methodResult[1].kind = "returned" /\ methodResult[1].value.data = <<>>
            ELSE outcome.kind = "throw" /\ methodResult[1] = Thrown(outcome.error)
    /\ MethodEnded("packageExists")
         => IF Succeeded THEN methodResult[1] = Returned(TRUE)
            ELSE IF Answered(404) THEN methodResult[1] = Returned(FALSE)
            ELSE outcome.kind = "throw" /\ methodResult[1] = Thrown(outcome.error)

\* packageExists has returned false for a 404 that came after two 5xx responses
C25_Witness ==
    /\ MethodEnded("packageExists")
    /\ Len(responses) = 3
    /\ Answered(404)
    /\ methodResult[1] = Returned(FALSE)

\* searchPackages has thrown the rate-limit error of a 429
C25_WitnessPropagates ==
    /\ MethodEnded("searchPackages")
    /\ Answered(429)
    /\ methodResult[1].kind = "thrown"
    /\ methodResult[1].error.statusCode = Some(429)

\* C30: getVulnerabilities never throws: it returns the vulns of a successful
\* query that has them, and an empty list in every other case.
C30_VulnerabilitiesNeverThrow ==
    MethodEnded("getVulnerabilities")
      => /\ methodResult[1].kind = "returned"
         /\ ~Succeeded => methodResult[1].value = [data |-> <<>>, rateLimit |-> None]
         /\ methodResult[1].value.data # <<>> => Succeeded

\* the query was answered 503 three times: an empty list is returned
C30_Witness ==
    /\ MethodEnded("getVulnerabilities")
    /\ Len(responses) = 3
    /\ AllHttp5xx(responses)
    /\ outcome.kind = "throw"
    /\ methodResult[1] = Returned([data |-> <<>>, rateLimit |-> None])

SpecRequest == ReqInit /\ [][ReqNext]_vars

====
